---- MODULE Spec2Model ----
(***************************************************************************)
(* A model of app/main.py: the agent loop (run_agent_loop), its dispatcher *)
(* and the three tool implementations (tool_read, tool_write, tool_bash).  *)
(*                                                                         *)
(* Python text (str) is a sequence of one-character strings, so that the   *)
(* character-level behaviour of the code (newline translation, endswith,   *)
(* dirname) is computed and not assumed.  Identifiers that the code only   *)
(* compares or copies (tool names, call ids, raw JSON argument texts,      *)
(* exception messages) are TLA+ strings.  A Python value of dynamic type   *)
(* is a record tagged with its type.                                       *)
(***************************************************************************)
EXTENDS Integers, Sequences, FiniteSets, TLC

\* ------------------------------------------------------------------ bounds

\* Service calls one run of the loop may make before the model stops it.
MaxServiceCalls == 3
\* Tool invocation requests the service may emit in one run, over all responses.
MaxToolCalls == 2
\* Calls of the tool harness (SpecTools) in one behaviour.
MaxOps == 3

\* ------------------------------------------------------------ Python values

LF == "\n"
CR == "\r"

\* A character str can hold but UTF-8 cannot encode (a lone surrogate), the
\* character NUL, and a byte that is not valid UTF-8.
SURROGATE == "\\ud800"
NUL == "\\x00"
BADBYTE == "\\xff"

\* The values at hand: None, str (a sequence of characters), list and dict,
\* which is what the JSON texts and the command lines of this model decode
\* to. Numbers and booleans do not occur.
PyNone == [t |-> "None"]
PyStr(s) == [t |-> "str", v |-> s]
PyList(s) == [t |-> "list", v |-> s]
PyDict(d) == [t |-> "dict", v |-> d]

IsStr(x) == x.t = "str"

\* type(x).__name__
TypeName(x) == IF x.t = "None" THEN "NoneType" ELSE x.t

\* Python truthiness (bool(x)) of the values that occur here.
Truthy(x) ==
  CASE x.t = "None" -> FALSE
    [] x.t = "str" -> x.v # <<>>
    [] x.t = "list" -> x.v # <<>>
    [] x.t = "dict" -> DOMAIN x.v # {}
    [] OTHER -> TRUE

\* Python's `a or b`.
PyOr(a, b) == IF Truthy(a) THEN a ELSE b

\* dict.get(key): the value, or None when the key is absent.
DictGet(d, key) == IF key \in DOMAIN d.v THEN d.v[key] ELSE PyNone

\* str(n) for an integer n.
Digit(n) == <<"0", "1", "2", "3", "4", "5", "6", "7", "8", "9">>[n + 1]

RECURSIVE NatStr(_)
NatStr(n) == IF n < 10 THEN <<Digit(n)>> ELSE NatStr(n \div 10) \o <<Digit(n % 10)>>

IntStr(n) == IF n < 0 THEN <<"-">> \o NatStr(-n) ELSE NatStr(n)

\* str.endswith(c) for a one-character suffix.
EndsWith(s, c) == Len(s) > 0 /\ s[Len(s)] = c

\* --------------------------------------------------------------- the registry

\* TOOLS advertising a tool Grep besides the three.
TOOLS_WithGrep ==
  << [name |-> "Read", required |-> <<"file_path">>],
     [name |-> "Write", required |-> <<"file_path", "content">>],
     [name |-> "Bash", required |-> <<"command">>],
     [name |-> "Grep", required |-> <<"pattern">>] >>

\* TOOLS: the advertised tool names and their required parameters.
TOOLS ==
  << [name |-> "Read", required |-> <<"file_path">>],
     [name |-> "Write", required |-> <<"file_path", "content">>],
     [name |-> "Bash", required |-> <<"command">>] >>

ToolNames == {TOOLS[i].name : i \in DOMAIN TOOLS}

Required(name) ==
  LET i == CHOOSE j \in DOMAIN TOOLS : TOOLS[j].name = name
  IN {TOOLS[i].required[k] : k \in DOMAIN TOOLS[i].required}

\* ------------------------------------------------------------- the filesystem

\* The filesystem as seen from the working directory: a map from the name of
\* each existing node to the node, a directory or a regular file with its
\* bytes. The name of a node is its path with no "." or ".." step on the way,
\* no empty component and no trailing slash, taken from the working directory
\* (<<>> is the working directory itself, a name of ".." components only a
\* directory above it) or, when it starts with a slash, from the root. The
\* working directory, the directories above it and the root exist and have no
\* entry in the map; the working directory lies deeper below the root than any
\* path at hand climbs, and no path comes back into it by its name.
DirNode == [kind |-> "dir"]
FileNode(data) == [kind |-> "file", data |-> data]

Put(fs, p, node) == [q \in DOMAIN fs \cup {p} |-> IF q = p THEN node ELSE fs[q]]

DOT == <<".">>
DOTDOT == <<".", ".">>
ROOT == <<"/">>

\* Index of the last "/" of p, 0 when there is none (str.rfind + 1).
RECURSIVE RFindSlash(_, _)
RFindSlash(p, i) == IF i = 0 THEN 0 ELSE IF p[i] = "/" THEN i ELSE RFindSlash(p, i - 1)

\* str.rstrip("/").
RECURSIVE RStripSlash(_)
RStripSlash(p) ==
  IF EndsWith(p, "/") THEN RStripSlash(SubSeq(p, 1, Len(p) - 1)) ELSE p

\* Index of the first "/" of p, Len(p) + 1 when there is none.
FirstSlash(p) ==
  IF \E i \in DOMAIN p : p[i] = "/"
    THEN CHOOSE i \in DOMAIN p : p[i] = "/" /\ \A j \in 1..(i - 1) : p[j] # "/"
    ELSE Len(p) + 1

\* The components of a path, in order: runs of slashes separate them.
RECURSIVE Components(_)
Components(p) ==
  LET i == FirstSlash(p)
  IN IF p = <<>> THEN <<>>
     ELSE IF Head(p) = "/" THEN Components(Tail(p))
     ELSE <<SubSeq(p, 1, i - 1)>> \o Components(SubSeq(p, i, Len(p)))

\* The directories that exist without an entry: the root, the working
\* directory and the directories above it.
Implicit(name) ==
  \/ name = <<>>
  \/ name = ROOT
  \/ /\ Head(name) = "."
     /\ LET cs == Components(name) IN \A i \in DOMAIN cs : cs[i] = DOTDOT

Exists(fs, p) == Implicit(p) \/ p \in DOMAIN fs
IsDir(fs, p) == Implicit(p) \/ (p \in DOMAIN fs /\ fs[p].kind = "dir")
IsFile(fs, p) == p \in DOMAIN fs /\ fs[p].kind = "file"

\* The directory holding the node name; the root holds itself.
Parent(name) ==
  LET i == RFindSlash(name, Len(name))
  IN IF name = ROOT THEN ROOT
     ELSE IF name = <<>> THEN DOTDOT
     ELSE IF Implicit(name) THEN name \o <<"/">> \o DOTDOT
     ELSE IF i = 0 THEN <<>>
     ELSE IF i = 1 THEN ROOT
     ELSE SubSeq(name, 1, i - 1)

\* One step of path resolution, from the directory cur by the component c.
Step(cur, c) ==
  IF c = DOT THEN cur
  ELSE IF c = DOTDOT THEN Parent(cur)
  ELSE IF cur = <<>> THEN c
  ELSE IF cur = ROOT THEN ROOT \o c
  ELSE cur \o <<"/">> \o c

\* Where the resolution of p starts: the root or the working directory.
Start(p) == IF p # <<>> /\ Head(p) = "/" THEN ROOT ELSE <<>>

RECURSIVE WalkFrom(_, _)
WalkFrom(cur, cs) == IF cs = <<>> THEN cur ELSE WalkFrom(Step(cur, Head(cs)), Tail(cs))

\* The node a path names: "." stays, ".." goes up, runs of slashes count as
\* one and trailing slashes are dropped.
NodeOf(p) == WalkFrom(Start(p), Components(p))

\* The error of resolving the components cs from cur on: each step is taken
\* from an existing directory, or else the path is not found (nothing there)
\* or not a directory (a regular file there).
RECURSIVE ResolveErrorFrom(_, _, _)
ResolveErrorFrom(fs, cur, cs) ==
  IF cs = <<>> THEN ""
  ELSE IF ~Exists(fs, cur) THEN "FileNotFoundError"
  ELSE IF ~IsDir(fs, cur) THEN "NotADirectoryError"
  ELSE ResolveErrorFrom(fs, Step(cur, Head(cs)), Tail(cs))

\* The error of handing the str p to the operating system as a path, before
\* anything is looked up: it is encoded first (UTF-8 with surrogateescape,
\* which SURROGATE is beyond) and must then hold no NUL.
PathError(p) ==
  IF \E i \in DOMAIN p : p[i] = SURROGATE THEN "UnicodeEncodeError"
  ELSE IF \E i \in DOMAIN p : p[i] = NUL THEN "ValueError"
  ELSE ""

\* The error of resolving p up to the node it names, "" when every step on
\* the way can be taken; the empty path names nothing.
ResolveError(fs, p) ==
  IF PathError(p) # "" THEN PathError(p)
  ELSE IF p = <<>> THEN "FileNotFoundError"
  ELSE ResolveErrorFrom(fs, Start(p), Components(p))

\* The error of os.stat(p), "" when p names an existing node.
StatError(fs, p) ==
  LET name == NodeOf(p)
      err == ResolveError(fs, p)
  IN IF err # "" THEN err
     ELSE IF ~Exists(fs, name) THEN "FileNotFoundError"
     ELSE IF EndsWith(p, "/") /\ ~IsDir(fs, name) THEN "NotADirectoryError"
     ELSE ""

\* os.path.exists and os.path.isdir: False on any error of os.stat.
path_exists(fs, p) == StatError(fs, p) = ""
path_isdir(fs, p) == StatError(fs, p) = "" /\ IsDir(fs, NodeOf(p))

\* os.mkdir(p): the directory is created where nothing is.
mkdir(fs, p) ==
  LET name == NodeOf(p)
      err == ResolveError(fs, p)
  IN IF err # "" THEN [fs |-> fs, exc |-> err]
     ELSE IF Exists(fs, name) THEN [fs |-> fs, exc |-> "FileExistsError"]
     ELSE [fs |-> Put(fs, name, DirNode), exc |-> ""]

\* os.path.split (posixpath): the head up to the last slash, trailing slashes
\* stripped unless the head is nothing but slashes, and the tail after it.
split(p) ==
  LET i == RFindSlash(p, Len(p))
      head == SubSeq(p, 1, i)
  IN [head |-> IF head # <<>> /\ RStripSlash(head) # <<>> THEN RStripSlash(head) ELSE head,
      tail |-> SubSeq(p, i + 1, Len(p))]

\* os.path.dirname (posixpath): the head of the split.
dirname(p) == split(p).head

\* The head and the tail os.makedirs works with: those of the name, or of
\* its head when the name ends in a slash (first is split(name)).
MakedirsParts(first) == IF first.tail = <<>> THEN split(first.head) ELSE first

\* The end of os.makedirs: mkdir(name) has been tried with the outcome made,
\* and its error is passed over when the name is a directory (exist_ok).
MakeLast(fs, name, made) ==
  IF made.exc # "" /\ ~path_isdir(fs, name) THEN [fs |-> fs, exc |-> made.exc]
  ELSE [fs |-> made.fs, exc |-> ""]

\* os.makedirs once the head has been made with the outcome above: a
\* FileExistsError of that is passed over, any other error is the outcome, a
\* name ending in "." is done, or else mkdir(name) follows.
MakeAfterHead(name, tail, above) ==
  IF above.exc \notin {"", "FileExistsError"} THEN above
  ELSE IF tail = DOT THEN [fs |-> above.fs, exc |-> ""]
  ELSE MakeLast(above.fs, name, mkdir(above.fs, name))

\* os.makedirs(name, exist_ok=True): the head of the name is made first when
\* there is a head and a tail and the head does not exist, then mkdir(name).
RECURSIVE makedirs(_, _)
MakeFrom(fs, name, parts) ==
  IF parts.head # <<>> /\ parts.tail # <<>> /\ ~path_exists(fs, parts.head)
    THEN MakeAfterHead(name, parts.tail, makedirs(fs, parts.head))
    ELSE MakeLast(fs, name, mkdir(fs, name))

makedirs(fs, name) == MakeFrom(fs, name, MakedirsParts(split(name)))

\* The error open(p, ...) reports for the place p names, "" when p can be
\* opened; creating says whether a missing file is acceptable (mode "w").
\* With a trailing slash, mode "w" is refused as a directory whatever is
\* there, mode "r" wants a directory and then refuses it.
OpenError(fs, p, creating) ==
  LET name == NodeOf(p)
      err == ResolveError(fs, p)
  IN IF err # "" THEN err
     ELSE IF EndsWith(p, "/") /\ creating THEN "IsADirectoryError"
     ELSE IF IsDir(fs, name) THEN "IsADirectoryError"
     ELSE IF EndsWith(p, "/")
       THEN (IF IsFile(fs, name) THEN "NotADirectoryError" ELSE "FileNotFoundError")
     ELSE IF ~creating /\ ~Exists(fs, name) THEN "FileNotFoundError"
     ELSE ""

\* ------------------------------------------------------ text-mode file access

\* os.linesep of the platform the program runs on.
os_linesep == <<LF>>

\* TextIOWrapper.write with newline=None: each "\n" becomes os.linesep.
RECURSIVE EncodeText(_)
EncodeText(s) ==
  IF s = <<>> THEN <<>>
  ELSE (IF Head(s) = LF THEN os_linesep ELSE <<Head(s)>>) \o EncodeText(Tail(s))

\* TextIOWrapper.read with newline=None (universal newlines): "\r\n" and a
\* lone "\r" are both returned as "\n".
RECURSIVE DecodeText(_)
DecodeText(b) ==
  IF b = <<>> THEN <<>>
  ELSE IF Head(b) = CR
    THEN <<LF>> \o (IF Len(b) > 1 /\ b[2] = LF THEN DecodeText(Tail(Tail(b)))
                    ELSE DecodeText(Tail(b)))
  ELSE <<Head(b)>> \o DecodeText(Tail(b))

\* ------------------------------------------------------- tool implementations

\* What a call of a tool implementation did: the exception it raised ("" when
\* it returned), the value it returned, and the filesystem it left.
Returned(fs, out) == [exc |-> "", out |-> out, fs |-> fs]
Raised(fs, exc) == [exc |-> exc, out |-> PyNone, fs |-> fs]

\* f.read() on the file opened at p: its bytes decoded as UTF-8, the newlines
\* translated.
ReadText(fs, p) ==
  LET data == fs[NodeOf(p)].data
  IN IF \E i \in DOMAIN data : data[i] = BADBYTE THEN Raised(fs, "UnicodeDecodeError")
     ELSE Returned(fs, PyStr(DecodeText(data)))

\* tool_read(file_path): open(file_path, "r", encoding="utf-8") and f.read().
\* open() takes a str for a path and refuses None, a list and a dict with a
\* TypeError, whatever they hold.
tool_read(fs, file_path) ==
  IF ~IsStr(file_path) THEN Raised(fs, "TypeError")
  ELSE IF OpenError(fs, file_path.v, FALSE) # ""
    THEN Raised(fs, OpenError(fs, file_path.v, FALSE))
  ELSE ReadText(fs, file_path.v)

\* "Wrote {len(content)} chars to {file_path}"
WroteMessage(file_path, content) ==
  <<"W", "r", "o", "t", "e", " ">> \o IntStr(Len(content))
    \o <<" ", "c", "h", "a", "r", "s", " ", "t", "o", " ">> \o file_path

\* open(file_path, "w") keeping what the file held (mode "a").
Truncated_Kept(fs, p) ==
  IF IsFile(fs, NodeOf(p)) THEN fs ELSE Put(fs, NodeOf(p), FileNode(<<>>))

\* open(file_path, "w", encoding="utf-8") where it can be opened: the file is
\* created, or emptied of what it held.
Truncated(fs, p) == Put(fs, NodeOf(p), FileNode(<<>>))

\* f.write(content) on the file opened at p, and the confirmation returned:
\* content that is not a str or cannot be encoded raises with nothing written.
WriteText(opened, p, content) ==
  IF ~IsStr(content) THEN Raised(opened, "TypeError")
  ELSE IF \E i \in DOMAIN content.v : content.v[i] = SURROGATE
    THEN Raised(opened, "UnicodeEncodeError")
  ELSE Returned(Put(opened, NodeOf(p),
                    FileNode(opened[NodeOf(p)].data \o EncodeText(content.v))),
                PyStr(WroteMessage(p, content.v)))

\* tool_write after the parent has been dealt with, made being the outcome of
\* os.makedirs: its error ends the call, and so does the error of open.
WriteWith(made, p, err, content) ==
  IF made.exc # "" THEN Raised(made.fs, made.exc)
  ELSE IF err # "" THEN Raised(made.fs, err)
  ELSE WriteText(Truncated(made.fs, p), p, content)

\* The outcome of "if parent: os.makedirs(parent, exist_ok=True)".
ParentMade(fs, parent) ==
  IF parent # <<>> THEN makedirs(fs, parent) ELSE [fs |-> fs, exc |-> ""]

\* The rest of tool_write once the parent has been dealt with.
WriteUnder(made, p, content) == WriteWith(made, p, OpenError(made.fs, p, TRUE), content)

\* tool_write(file_path, content): makedirs of the parent when there is one,
\* then open(file_path, "w", encoding="utf-8"), which creates or truncates the
\* file, then f.write(content). os.path.dirname refuses a file_path that is
\* not a str (None, a list, a dict) with a TypeError.
tool_write(fs, file_path, content) ==
  IF ~IsStr(file_path) THEN Raised(fs, "TypeError")
  ELSE WriteUnder(ParentMade(fs, dirname(file_path.v)), file_path.v, content)

\* What running a command did, as subprocess.run reports it: either it could
\* not be launched (an exception e) or it completed with a return code and the
\* two captured streams.
NotLaunched(e) == [launched |-> FALSE, e |-> e]
Completed(returncode, stdout, stderr) ==
  [launched |-> TRUE, returncode |-> returncode, stdout |-> stdout, stderr |-> stderr]

\* "ERROR: failed to run command: {e}"
LaunchFailure(e) ==
  <<"E", "R", "R", "O", "R", ":", " ", "f", "a", "i", "l", "e", "d", " ", "t", "o", " ",
    "r", "u", "n", " ", "c", "o", "m", "m", "a", "n", "d", ":", " ">> \o e

\* "ERROR (code {returncode})\nSTDOUT:\n{stdout}\nSTDERR:\n{stderr}"
FailureReport(returncode, stdout, stderr) ==
  <<"E", "R", "R", "O", "R", " ", "(", "c", "o", "d", "e", " ">> \o IntStr(returncode)
    \o <<")", LF, "S", "T", "D", "O", "U", "T", ":", LF>> \o stdout
    \o <<LF, "S", "T", "D", "E", "R", "R", ":", LF>> \o stderr

\* Combined putting a newline between the streams whatever stdout is.
Combined_AlwaysNewline(stdout, stderr) ==
  IF stderr # <<>> THEN stdout \o <<LF>> \o stderr ELSE stdout

\* The success branch of tool_bash: stdout, then stderr when it is not empty,
\* after a newline when what precedes is not empty and does not end in one.
Combined(stdout, stderr) ==
  LET combined == IF stdout # <<>> THEN stdout ELSE <<>>
  IN IF stderr # <<>>
       THEN combined
              \o (IF EndsWith(combined, LF) \/ combined = <<>> THEN <<>> ELSE <<LF>>)
              \o stderr
       ELSE combined

\* tool_bash(command), given what subprocess.run did with the command.
tool_bash(command, run) ==
  IF ~run.launched THEN LaunchFailure(run.e)
  ELSE LET stdout == PyOr(PyStr(run.stdout), PyStr(<<>>)).v
           stderr == PyOr(PyStr(run.stderr), PyStr(<<>>)).v
       IN IF run.returncode # 0 THEN FailureReport(run.returncode, stdout, stderr)
          ELSE Combined(stdout, stderr)

\* ------------------------------------------------------------ JSON arguments

\* The argument texts (tc.function.arguments) the service sends in this model.
RAW_EMPTY == "{}"
RAW_MALFORMED == "{bad"
RAW_ARRAY == "[]"
RAW_PATH_A == "{\"file_path\": \"a\"}"
RAW_PATH_EMPTY == "{\"file_path\": \"\"}"
RAW_PATH_DB == "{\"file_path\": \"d/b\"}"
RAW_A_X == "{\"file_path\": \"a\", \"content\": \"x\"}"
RAW_A_NOTHING == "{\"file_path\": \"a\", \"content\": \"\"}"
RAW_A_NULL == "{\"file_path\": \"a\", \"content\": null}"
RAW_CONTENT_X == "{\"content\": \"x\"}"
RAW_A_CRLF == "{\"file_path\": \"a\", \"content\": \"x\\r\\n\"}"
RAW_DOTDB_X == "{\"file_path\": \"./d/b\", \"content\": \"x\"}"
RAW_DSLASH_X == "{\"file_path\": \"d/\", \"content\": \"x\"}"
RAW_A_SURROGATE == "{\"file_path\": \"a\", \"content\": \"\\ud800\"}"
RAW_COMMAND == "{\"command\": \"ls\"}"
RAW_COMMAND_EMPTY == "{\"command\": \"\"}"
RAW_PATH_LIST == "{\"file_path\": [\"a\"]}"
RAW_PATH_NOLIST == "{\"file_path\": []}"
RAW_A_LIST == "{\"file_path\": \"a\", \"content\": []}"

EmptyMap == [k \in {} |-> PyNone]

\* What json.loads makes of each of these texts.
JsonTable ==
  << <<RAW_EMPTY, PyDict(EmptyMap)>>,
     <<RAW_ARRAY, PyList(<<>>)>>,
     <<RAW_PATH_A, PyDict([file_path |-> PyStr(<<"a">>)])>>,
     <<RAW_PATH_EMPTY, PyDict([file_path |-> PyStr(<<>>)])>>,
     <<RAW_PATH_DB, PyDict([file_path |-> PyStr(<<"d", "/", "b">>)])>>,
     <<RAW_A_X, PyDict([file_path |-> PyStr(<<"a">>), content |-> PyStr(<<"x">>)])>>,
     <<RAW_A_NOTHING, PyDict([file_path |-> PyStr(<<"a">>), content |-> PyStr(<<>>)])>>,
     <<RAW_A_NULL, PyDict([file_path |-> PyStr(<<"a">>), content |-> PyNone])>>,
     <<RAW_CONTENT_X, PyDict([content |-> PyStr(<<"x">>)])>>,
     <<RAW_A_CRLF,
       PyDict([file_path |-> PyStr(<<"a">>), content |-> PyStr(<<"x", CR, LF>>)])>>,
     <<RAW_DOTDB_X,
       PyDict([file_path |-> PyStr(<<".", "/", "d", "/", "b">>),
               content |-> PyStr(<<"x">>)])>>,
     <<RAW_DSLASH_X,
       PyDict([file_path |-> PyStr(<<"d", "/">>), content |-> PyStr(<<"x">>)])>>,
     <<RAW_A_SURROGATE,
       PyDict([file_path |-> PyStr(<<"a">>), content |-> PyStr(<<SURROGATE>>)])>>,
     <<RAW_COMMAND, PyDict([command |-> PyStr(<<"l", "s">>)])>>,
     <<RAW_COMMAND_EMPTY, PyDict([command |-> PyStr(<<>>)])>>,
     <<RAW_PATH_LIST, PyDict([file_path |-> PyList(<<PyStr(<<"a">>)>>)])>>,
     <<RAW_PATH_NOLIST, PyDict([file_path |-> PyList(<<>>)])>>,
     <<RAW_A_LIST, PyDict([file_path |-> PyStr(<<"a">>), content |-> PyList(<<>>)])>> >>

\* json.loads(raw): the decoded value, or the JSONDecodeError it raises.
json_loads(raw) ==
  IF \E i \in DOMAIN JsonTable : JsonTable[i][1] = raw
    THEN [ok |-> TRUE,
          val |-> JsonTable[CHOOSE i \in DOMAIN JsonTable : JsonTable[i][1] = raw][2]]
    ELSE [ok |-> FALSE,
          e |-> "Expecting property name enclosed in double quotes: line 1 column 2 (char 1)"]

\* ------------------------------------------------------------- the dispatcher

\* The body of the for loop over tool_calls, for one request tc: either it
\* raises (the run is aborted) or it yields the tool's output.  calls lists
\* the calls of tool implementations it made, fs is the filesystem it leaves.
\* Abort swallowing the exception: the pass of the for loop goes on with an
\* empty output.
Abort_Swallowed(fs, type, msg, calls) ==
  [raised |-> FALSE, exc |-> [type |-> "", msg |-> ""], output |-> PyStr(<<>>),
   fs |-> fs, calls |-> calls]

Abort(fs, type, msg, calls) ==
  [raised |-> TRUE, exc |-> [type |-> type, msg |-> msg], output |-> PyNone,
   fs |-> fs, calls |-> calls]

Output(fs, output, calls) ==
  [raised |-> FALSE, exc |-> [type |-> "", msg |-> ""], output |-> output,
   fs |-> fs, calls |-> calls]

MissingArgument(name) == "Missing required argument: " \o name

\* A call of tool_read or tool_write and what became of it.
FileCall(fn, args, r) ==
  LET call == [fn |-> fn, args |-> args, exc |-> r.exc, out |-> r.out]
  IN IF r.exc # "" THEN Abort(r.fs, r.exc, "", <<call>>)
     ELSE Output(r.fs, r.out, <<call>>)

\* DispatchRead answering without calling tool_read.
DispatchRead_Unread(fs, args_obj) ==
  LET file_path == DictGet(args_obj, "file_path")
  IN IF ~Truthy(file_path) THEN Abort(fs, "RuntimeError", MissingArgument("file_path"), <<>>)
     ELSE Output(fs, PyStr(<<>>), <<>>)

DispatchRead(fs, args_obj) ==
  LET file_path == DictGet(args_obj, "file_path")
  IN IF ~Truthy(file_path) THEN Abort(fs, "RuntimeError", MissingArgument("file_path"), <<>>)
     ELSE FileCall("tool_read", <<file_path>>, tool_read(fs, file_path))

\* DispatchWrite checking content before file_path.
DispatchWrite_ContentFirst(fs, args_obj) ==
  LET file_path == DictGet(args_obj, "file_path")
      content == DictGet(args_obj, "content")
  IN IF content = PyNone THEN Abort(fs, "RuntimeError", MissingArgument("content"), <<>>)
     ELSE IF ~Truthy(file_path)
       THEN Abort(fs, "RuntimeError", MissingArgument("file_path"), <<>>)
     ELSE FileCall("tool_write", <<file_path, content>>, tool_write(fs, file_path, content))

\* DispatchWrite leaving the check of content to tool_write.
DispatchWrite_Unchecked(fs, args_obj) ==
  LET file_path == DictGet(args_obj, "file_path")
      content == DictGet(args_obj, "content")
  IN IF ~Truthy(file_path) THEN Abort(fs, "RuntimeError", MissingArgument("file_path"), <<>>)
     ELSE FileCall("tool_write", <<file_path, content>>, tool_write(fs, file_path, content))

DispatchWrite(fs, args_obj) ==
  LET file_path == DictGet(args_obj, "file_path")
      content == DictGet(args_obj, "content")
  IN IF ~Truthy(file_path) THEN Abort(fs, "RuntimeError", MissingArgument("file_path"), <<>>)
     ELSE IF content = PyNone
       THEN Abort(fs, "RuntimeError", MissingArgument("content"), <<>>)
     ELSE FileCall("tool_write", <<file_path, content>>, tool_write(fs, file_path, content))

\* DispatchBash letting a command that failed abort the run.
DispatchBash_Fatal(fs, args_obj, run) ==
  LET command == DictGet(args_obj, "command")
      out == PyStr(tool_bash(command, run))
      call == [fn |-> "tool_bash", args |-> <<command>>, exc |-> "", out |-> out,
               run |-> run]
  IN IF ~Truthy(command) THEN Abort(fs, "RuntimeError", MissingArgument("command"), <<>>)
     ELSE IF ~run.launched \/ run.returncode # 0
       THEN Abort(fs, "RuntimeError", "command failed", <<call>>)
     ELSE Output(fs, out, <<call>>)

DispatchBash(fs, args_obj, run) ==
  LET command == DictGet(args_obj, "command")
      out == PyStr(tool_bash(command, run))
  IN IF ~Truthy(command) THEN Abort(fs, "RuntimeError", MissingArgument("command"), <<>>)
     ELSE Output(fs, out,
                 << [fn |-> "tool_bash", args |-> <<command>>, exc |-> "", out |-> out,
                     run |-> run] >>)

\* Unsupported reporting the unknown tool to the model as a tool result.
Unsupported_Reported(fs, fn_name) == Output(fs, PyStr(<<"?">>), <<>>)

\* else: raise RuntimeError(f"Unsupported tool: {fn_name}")
Unsupported(fs, fn_name) == Abort(fs, "RuntimeError", "Unsupported tool: " \o fn_name, <<>>)

Dispatch(fs, tc, run) ==
  LET fn_name == tc.function.name
      raw_args == IF tc.function.arguments = "" THEN "{}" ELSE tc.function.arguments
      decoded == json_loads(raw_args)
      args_obj == decoded.val
  IN IF ~decoded.ok
       THEN Abort(fs, "RuntimeError", "Invalid tool arguments JSON: " \o decoded.e, <<>>)
     ELSE IF fn_name \in {"Read", "Write", "Bash"} /\ args_obj.t # "dict"
       THEN Abort(fs, "AttributeError",
                  "'" \o TypeName(args_obj) \o "' object has no attribute 'get'", <<>>)
     ELSE IF fn_name = "Read" THEN DispatchRead(fs, args_obj)
     ELSE IF fn_name = "Write" THEN DispatchWrite(fs, args_obj)
     ELSE IF fn_name = "Bash" THEN DispatchBash(fs, args_obj, run)
     ELSE Unsupported(fs, fn_name)

\* --------------------------------------------------------------------- state

VARIABLES
  pc,             \* where the run is: AWAITING_MODEL, AWAITING_TOOL_RESULTS,
                  \* RETURNED, RAISED (TOOLS and BASH: the tool harnesses)
  messages,       \* the conversation state
  tool_calls,     \* the requests of the response being dispatched
  idx,            \* the position of the for loop in tool_calls
  outcome,        \* what run_agent_loop returned or raised
  fs,             \* the filesystem under the working directory
  resp,           \* the response the service returned last
  service_calls,  \* how many times the service was called
  issued,         \* how many request ids the service has assigned
  invoked,        \* the calls of tool implementations made so far, in order
  stdout          \* what the process has written to its standard output

vars ==
  <<pc, messages, tool_calls, idx, outcome, fs, resp, service_calls, issued, invoked,
    stdout>>

\* ------------------------------------------------------------ the environment

user_prompt == <<"p">>

EmptyFS == [p \in {} |-> DirNode]

\* The working directory at start: empty, or holding a file "a", of text or of
\* bytes that are not UTF-8.
InitialFS ==
  { EmptyFS, Put(EmptyFS, <<"a">>, FileNode(<<"o", "l", "d">>)),
    Put(EmptyFS, <<"a">>, FileNode(<<BADBYTE>>)) }

\* The requests (tool name, argument text) the service may emit.
Requests ==
  { <<"Read", RAW_PATH_A>>, <<"Read", RAW_PATH_DB>>, <<"Read", RAW_PATH_EMPTY>>,
    <<"Read", RAW_EMPTY>>, <<"Read", RAW_MALFORMED>>, <<"Read", RAW_ARRAY>>,
    <<"Write", RAW_A_X>>, <<"Write", RAW_A_NOTHING>>, <<"Write", RAW_A_CRLF>>,
    <<"Write", RAW_DOTDB_X>>, <<"Write", RAW_DSLASH_X>>, <<"Write", RAW_PATH_A>>,
    <<"Write", RAW_A_NULL>>, <<"Write", RAW_CONTENT_X>>, <<"Write", RAW_PATH_EMPTY>>,
    <<"Write", RAW_EMPTY>>, <<"Write", RAW_A_SURROGATE>>, <<"Write", RAW_A_LIST>>,
    <<"Read", RAW_PATH_LIST>>, <<"Read", RAW_PATH_NOLIST>>,
    <<"Bash", RAW_COMMAND>>, <<"Bash", RAW_COMMAND_EMPTY>>,
    <<"Bash", "">>, <<"Grep", RAW_EMPTY>> }

\* The service assigns every request an id of its own (spec.md, section 3:
\* "unique id, service-assigned"): the n-th request of a run gets call_n.
IdOf(n) == "call_" \o ToString(n)

ToolCall(n, request) ==
  [id |-> IdOf(n), type |-> "function",
   function |-> [name |-> request[1], arguments |-> request[2]]]

\* The texts a response may carry as its content.
Contents == {PyNone, PyStr(<<>>), PyStr(<<"o", "k">>)}

\* A response with one candidate.
Response(content, calls) ==
  [choices |-> << [message |-> [content |-> content, tool_calls |-> calls]] >>]

\* The responses that end the loop: no tool_calls, or an empty list of them.
FinalResponses == {Response(c, t) : c \in Contents, t \in {PyNone, PyList(<<>>)}}

\* The responses that request k tools, the ids continuing from n.
ToolResponses(n, k) ==
  {Response(c, PyList([i \in 1..k |-> ToolCall(n + i, rs[i])])) :
     c \in {PyNone, PyStr(<<"o", "k">>)}, rs \in [1..k -> Requests]}

\* What subprocess.run may do with a command during a run of the loop.
LoopRuns ==
  { NotLaunched(<<"e">>), Completed(7, <<>>, <<>>), Completed(0, <<"h", "i", LF>>, <<>>) }

\* ------------------------------------------------------------- the agent loop

\* messages = [{"role": "user", "content": user_prompt}]
Init ==
  /\ pc = "AWAITING_MODEL"
  /\ messages = << [role |-> "user", content |-> PyStr(user_prompt)] >>
  /\ tool_calls = <<>>
  /\ idx = 0
  /\ outcome = [kind |-> "running"]
  /\ fs \in InitialFS
  /\ resp = [choices |-> <<>>]
  /\ service_calls = 0
  /\ issued = 0
  /\ invoked = <<>>
  /\ stdout = <<>>

\* getattr(message, "tool_calls", None) or []
ToolCallsOf(message) == PyOr(message.tool_calls, PyList(<<>>)).v

\* AssistantEntry carrying a tool_calls list even when it is empty.
AssistantEntry_AlwaysCalls(message) ==
  LET calls == ToolCallsOf(message)
  IN [role |-> "assistant", content |-> message.content,
      tool_calls |-> [i \in DOMAIN calls |->
                        [id |-> calls[i].id, type |-> calls[i].type,
                         function |-> [name |-> calls[i].function.name,
                                       arguments |-> calls[i].function.arguments]]]]

\* assistant_entry: role and content, and tool_calls only when there are some.
AssistantEntry(message) ==
  LET calls == ToolCallsOf(message)
      entry == [role |-> "assistant", content |-> message.content]
      copied == [i \in DOMAIN calls |->
                   [id |-> calls[i].id, type |-> calls[i].type,
                    function |-> [name |-> calls[i].function.name,
                                  arguments |-> calls[i].function.arguments]]]
  IN IF calls # <<>>
       THEN [role |-> "assistant", content |-> message.content, tool_calls |-> copied]
       ELSE entry

\* FinalText without the `or ""`: an absent content is returned as None.
FinalText_NoDefault(message) == message.content

\* return message.content or ""
FinalText(message) == PyOr(message.content, PyStr(<<>>))

\* ToolEntry carrying the id of the first request of the response.
ToolEntry_FirstId(tc, output) ==
  [role |-> "tool", tool_call_id |-> tool_calls[1].id, content |-> output]

\* {"role": "tool", "tool_call_id": tc.id, "content": output}
ToolEntry(tc, output) == [role |-> "tool", tool_call_id |-> tc.id, content |-> output]

\* append putting the new message in front of the list.
append_Front(msgs, entry) == <<entry>> \o msgs

\* messages.append(entry)
append(msgs, entry) == Append(msgs, entry)

\* Called giving up after two iterations.
Called_Limited(r) ==
  /\ pc = "AWAITING_MODEL"
  /\ service_calls < 2
  /\ service_calls' = service_calls + 1
  /\ resp' = r

\* The service is called and answers r.
Called(r) ==
  /\ pc = "AWAITING_MODEL"
  /\ service_calls < MaxServiceCalls
  /\ service_calls' = service_calls + 1
  /\ resp' = r

\* The response has no candidate: raise RuntimeError("no choices in response").
NoChoices ==
  /\ Called([choices |-> <<>>])
  /\ pc' = "RAISED"
  /\ outcome' = [kind |-> "raise",
                 exc |-> [type |-> "RuntimeError", msg |-> "no choices in response"]]
  /\ UNCHANGED <<messages, tool_calls, idx, fs, issued, invoked, stdout>>

\* The response requests no tool: tool_calls is the empty list, the assistant
\* entry is appended and the content returned.
FinalAnswer ==
  \E r \in FinalResponses :
    LET message == r.choices[1].message
    IN /\ Called(r)
       /\ ToolCallsOf(message) = <<>>
       /\ tool_calls' = ToolCallsOf(message)
       /\ messages' = append(messages, AssistantEntry(message))
       /\ pc' = "RETURNED"
       /\ outcome' = [kind |-> "return", value |-> FinalText(message)]
       /\ UNCHANGED <<idx, fs, issued, invoked, stdout>>

\* The response requests tools: the assistant entry is appended and the for
\* loop over the requests starts.
ToolsRequested ==
  \E k \in 1..(MaxToolCalls - issued) :
    \E r \in ToolResponses(issued, k) :
      LET message == r.choices[1].message
      IN /\ Called(r)
         /\ ToolCallsOf(message) # <<>>
         /\ messages' = append(messages, AssistantEntry(message))
         /\ tool_calls' = ToolCallsOf(message)
         /\ idx' = 1
         /\ issued' = issued + k
         /\ pc' = "AWAITING_TOOL_RESULTS"
         /\ UNCHANGED <<outcome, fs, invoked, stdout>>

\* LastRequest leaving the for loop after its first pass.
LastRequest_First(i, calls) == TRUE

\* for tc in tool_calls: the loop is exhausted after the request at position i.
LastRequest(i, calls) == i = Len(calls)

\* RequestAt walking the list of requests from its end.
RequestAt_Reversed(calls, i) == calls[Len(calls) + 1 - i]

\* for tc in tool_calls: the request of the i-th pass.
RequestAt(calls, i) == calls[i]

\* One pass of the for loop ends in an exception: the run is aborted.
ToolAborts ==
  /\ pc = "AWAITING_TOOL_RESULTS"
  /\ \E run \in LoopRuns :
       LET d == Dispatch(fs, RequestAt(tool_calls, idx), run)
       IN /\ d.raised
          /\ fs' = d.fs
          /\ invoked' = invoked \o d.calls
          /\ pc' = "RAISED"
          /\ outcome' = [kind |-> "raise", exc |-> d.exc]
  /\ UNCHANGED <<messages, tool_calls, idx, resp, service_calls, issued, stdout>>

\* One pass of the for loop yields an output: the tool entry is appended, and
\* after the last request the loop goes back to calling the service.
ToolAnswers ==
  /\ pc = "AWAITING_TOOL_RESULTS"
  /\ \E run \in LoopRuns :
       LET tc == RequestAt(tool_calls, idx)
           d == Dispatch(fs, tc, run)
       IN /\ ~d.raised
          /\ fs' = d.fs
          /\ invoked' = invoked \o d.calls
          /\ messages' = append(messages, ToolEntry(tc, d.output))
  /\ IF LastRequest(idx, tool_calls)
       THEN pc' = "AWAITING_MODEL" /\ idx' = 0
       ELSE pc' = pc /\ idx' = idx + 1
  /\ UNCHANGED <<tool_calls, outcome, resp, service_calls, issued, stdout>>

Next == NoChoices \/ FinalAnswer \/ ToolsRequested \/ ToolAborts \/ ToolAnswers

Spec == Init /\ [][Next]_vars

\* ------------------------------------------------------------------- main()

\* The values os.getenv("OPENROUTER_API_KEY") may give.
ApiKeys == {PyNone, PyStr(<<>>), PyStr(<<"k">>)}

\* The words of a command line.
OPT_P == <<"-", "p">>
OPT_H == <<"-", "h">>
OPT_HELP == <<"-", "-", "h", "e", "l", "p">>
OPT_X == <<"-", "x">>
DASHDASH == <<"-", "-">>
\* "-" and ARABIC-INDIC DIGIT ONE: a negative number to the parser.
MINUS_ONE == <<"-", "\\u0661">>

\* The command lines the program is started with (sys.argv[1:]).
Argvs ==
  { <<OPT_P, user_prompt>>, <<>>, <<OPT_P>>, <<user_prompt>>, <<OPT_H>>, <<OPT_HELP>>,
    <<OPT_P, user_prompt, OPT_X>>, <<OPT_X, OPT_H>>, <<OPT_P, OPT_H>>,
    <<OPT_P, user_prompt, OPT_HELP>>,
    <<OPT_P \o user_prompt>>, <<OPT_P \o <<"=">> \o user_prompt>>,
    <<<<"-", "-", "h", "e">>>>, <<OPT_H \o <<"p">>>>, <<OPT_H \o <<"p">>, user_prompt>>,
    <<OPT_H \o <<"x">>>>, <<OPT_P, DASHDASH, user_prompt>>, <<DASHDASH, OPT_P, user_prompt>>,
    <<OPT_P, <<"-", "1">>, OPT_X>>, <<OPT_P, <<>>, OPT_X>>,
    <<OPT_P \o DASHDASH>>, <<OPT_P, MINUS_ONE, OPT_H>>, <<OPT_P, MINUS_ONE, OPT_X>> }

\* What parser.print_help() writes for the one option -p (prog is main.py).
HelpText ==
  << "u", "s", "a", "g", "e", ":", " ", "m", "a", "i", "n", ".", "p", "y", " ", "[", "-",
     "h", "]", " ", "-", "p", " ", "P", LF, LF, "o", "p", "t", "i", "o", "n", "s", ":",
     LF, " ", " ", "-", "h", ",", " ", "-", "-", "h", "e", "l", "p", " ", " ", "s", "h",
     "o", "w", " ", "t", "h", "i", "s", " ", "h", "e", "l", "p", " ", "m", "e", "s", "s",
     "a", "g", "e", " ", "a", "n", "d", " ", "e", "x", "i", "t", LF, " ", " ", "-", "p",
     " ", "P", " ", " ", " ", " ", " ", " ", " ", " ", "P", "r", "o", "m", "p", "t", " ",
     "t", "o", " ", "s", "e", "n", "d", " ", "t", "o", " ", "t", "h", "e", " ", "m", "o",
     "d", "e", "l", LF >>

\* The option strings of the parser, -h and --help added by argparse itself,
\* and the action each stands for.
Options == {OPT_H, OPT_HELP, OPT_P}
ActionOf(option) == IF option = OPT_P THEN "p" ELSE "help"

StartsWith(s, pre) == Len(pre) <= Len(s) /\ SubSeq(s, 1, Len(pre)) = pre

\* Index of the first "=" of w, 0 when there is none.
FindEq(w) ==
  IF \E i \in DOMAIN w : w[i] = "="
    THEN CHOOSE i \in DOMAIN w : w[i] = "=" /\ \A j \in 1..(i - 1) : w[j] # "="
    ELSE 0

\* The characters the digit class \d of Python's re matches in a str pattern:
\* every Unicode decimal digit (category Nd, 66 runs of ten in the Unicode 14
\* of Python 3.11), not only the ASCII ones. A character outside ASCII is
\* written as its Python escape.
Digits ==
  {
    "0", "1", "2", "3", "4", "5", "6", "7", "8", "9",
    "\\u0660", "\\u0661", "\\u0662", "\\u0663", "\\u0664", "\\u0665", "\\u0666", "\\u0667", "\\u0668", "\\u0669",
    "\\u06f0", "\\u06f1", "\\u06f2", "\\u06f3", "\\u06f4", "\\u06f5", "\\u06f6", "\\u06f7", "\\u06f8", "\\u06f9",
    "\\u07c0", "\\u07c1", "\\u07c2", "\\u07c3", "\\u07c4", "\\u07c5", "\\u07c6", "\\u07c7", "\\u07c8", "\\u07c9",
    "\\u0966", "\\u0967", "\\u0968", "\\u0969", "\\u096a", "\\u096b", "\\u096c", "\\u096d", "\\u096e", "\\u096f",
    "\\u09e6", "\\u09e7", "\\u09e8", "\\u09e9", "\\u09ea", "\\u09eb", "\\u09ec", "\\u09ed", "\\u09ee", "\\u09ef",
    "\\u0a66", "\\u0a67", "\\u0a68", "\\u0a69", "\\u0a6a", "\\u0a6b", "\\u0a6c", "\\u0a6d", "\\u0a6e", "\\u0a6f",
    "\\u0ae6", "\\u0ae7", "\\u0ae8", "\\u0ae9", "\\u0aea", "\\u0aeb", "\\u0aec", "\\u0aed", "\\u0aee", "\\u0aef",
    "\\u0b66", "\\u0b67", "\\u0b68", "\\u0b69", "\\u0b6a", "\\u0b6b", "\\u0b6c", "\\u0b6d", "\\u0b6e", "\\u0b6f",
    "\\u0be6", "\\u0be7", "\\u0be8", "\\u0be9", "\\u0bea", "\\u0beb", "\\u0bec", "\\u0bed", "\\u0bee", "\\u0bef",
    "\\u0c66", "\\u0c67", "\\u0c68", "\\u0c69", "\\u0c6a", "\\u0c6b", "\\u0c6c", "\\u0c6d", "\\u0c6e", "\\u0c6f",
    "\\u0ce6", "\\u0ce7", "\\u0ce8", "\\u0ce9", "\\u0cea", "\\u0ceb", "\\u0cec", "\\u0ced", "\\u0cee", "\\u0cef",
    "\\u0d66", "\\u0d67", "\\u0d68", "\\u0d69", "\\u0d6a", "\\u0d6b", "\\u0d6c", "\\u0d6d", "\\u0d6e", "\\u0d6f",
    "\\u0de6", "\\u0de7", "\\u0de8", "\\u0de9", "\\u0dea", "\\u0deb", "\\u0dec", "\\u0ded", "\\u0dee", "\\u0def",
    "\\u0e50", "\\u0e51", "\\u0e52", "\\u0e53", "\\u0e54", "\\u0e55", "\\u0e56", "\\u0e57", "\\u0e58", "\\u0e59",
    "\\u0ed0", "\\u0ed1", "\\u0ed2", "\\u0ed3", "\\u0ed4", "\\u0ed5", "\\u0ed6", "\\u0ed7", "\\u0ed8", "\\u0ed9",
    "\\u0f20", "\\u0f21", "\\u0f22", "\\u0f23", "\\u0f24", "\\u0f25", "\\u0f26", "\\u0f27", "\\u0f28", "\\u0f29",
    "\\u1040", "\\u1041", "\\u1042", "\\u1043", "\\u1044", "\\u1045", "\\u1046", "\\u1047", "\\u1048", "\\u1049",
    "\\u1090", "\\u1091", "\\u1092", "\\u1093", "\\u1094", "\\u1095", "\\u1096", "\\u1097", "\\u1098", "\\u1099",
    "\\u17e0", "\\u17e1", "\\u17e2", "\\u17e3", "\\u17e4", "\\u17e5", "\\u17e6", "\\u17e7", "\\u17e8", "\\u17e9",
    "\\u1810", "\\u1811", "\\u1812", "\\u1813", "\\u1814", "\\u1815", "\\u1816", "\\u1817", "\\u1818", "\\u1819",
    "\\u1946", "\\u1947", "\\u1948", "\\u1949", "\\u194a", "\\u194b", "\\u194c", "\\u194d", "\\u194e", "\\u194f",
    "\\u19d0", "\\u19d1", "\\u19d2", "\\u19d3", "\\u19d4", "\\u19d5", "\\u19d6", "\\u19d7", "\\u19d8", "\\u19d9",
    "\\u1a80", "\\u1a81", "\\u1a82", "\\u1a83", "\\u1a84", "\\u1a85", "\\u1a86", "\\u1a87", "\\u1a88", "\\u1a89",
    "\\u1a90", "\\u1a91", "\\u1a92", "\\u1a93", "\\u1a94", "\\u1a95", "\\u1a96", "\\u1a97", "\\u1a98", "\\u1a99",
    "\\u1b50", "\\u1b51", "\\u1b52", "\\u1b53", "\\u1b54", "\\u1b55", "\\u1b56", "\\u1b57", "\\u1b58", "\\u1b59",
    "\\u1bb0", "\\u1bb1", "\\u1bb2", "\\u1bb3", "\\u1bb4", "\\u1bb5", "\\u1bb6", "\\u1bb7", "\\u1bb8", "\\u1bb9",
    "\\u1c40", "\\u1c41", "\\u1c42", "\\u1c43", "\\u1c44", "\\u1c45", "\\u1c46", "\\u1c47", "\\u1c48", "\\u1c49",
    "\\u1c50", "\\u1c51", "\\u1c52", "\\u1c53", "\\u1c54", "\\u1c55", "\\u1c56", "\\u1c57", "\\u1c58", "\\u1c59",
    "\\ua620", "\\ua621", "\\ua622", "\\ua623", "\\ua624", "\\ua625", "\\ua626", "\\ua627", "\\ua628", "\\ua629",
    "\\ua8d0", "\\ua8d1", "\\ua8d2", "\\ua8d3", "\\ua8d4", "\\ua8d5", "\\ua8d6", "\\ua8d7", "\\ua8d8", "\\ua8d9",
    "\\ua900", "\\ua901", "\\ua902", "\\ua903", "\\ua904", "\\ua905", "\\ua906", "\\ua907", "\\ua908", "\\ua909",
    "\\ua9d0", "\\ua9d1", "\\ua9d2", "\\ua9d3", "\\ua9d4", "\\ua9d5", "\\ua9d6", "\\ua9d7", "\\ua9d8", "\\ua9d9",
    "\\ua9f0", "\\ua9f1", "\\ua9f2", "\\ua9f3", "\\ua9f4", "\\ua9f5", "\\ua9f6", "\\ua9f7", "\\ua9f8", "\\ua9f9",
    "\\uaa50", "\\uaa51", "\\uaa52", "\\uaa53", "\\uaa54", "\\uaa55", "\\uaa56", "\\uaa57", "\\uaa58", "\\uaa59",
    "\\uabf0", "\\uabf1", "\\uabf2", "\\uabf3", "\\uabf4", "\\uabf5", "\\uabf6", "\\uabf7", "\\uabf8", "\\uabf9",
    "\\uff10", "\\uff11", "\\uff12", "\\uff13", "\\uff14", "\\uff15", "\\uff16", "\\uff17", "\\uff18", "\\uff19",
    "\\U000104a0", "\\U000104a1", "\\U000104a2", "\\U000104a3", "\\U000104a4", "\\U000104a5", "\\U000104a6", "\\U000104a7", "\\U000104a8", "\\U000104a9",
    "\\U00010d30", "\\U00010d31", "\\U00010d32", "\\U00010d33", "\\U00010d34", "\\U00010d35", "\\U00010d36", "\\U00010d37", "\\U00010d38", "\\U00010d39",
    "\\U00011066", "\\U00011067", "\\U00011068", "\\U00011069", "\\U0001106a", "\\U0001106b", "\\U0001106c", "\\U0001106d", "\\U0001106e", "\\U0001106f",
    "\\U000110f0", "\\U000110f1", "\\U000110f2", "\\U000110f3", "\\U000110f4", "\\U000110f5", "\\U000110f6", "\\U000110f7", "\\U000110f8", "\\U000110f9",
    "\\U00011136", "\\U00011137", "\\U00011138", "\\U00011139", "\\U0001113a", "\\U0001113b", "\\U0001113c", "\\U0001113d", "\\U0001113e", "\\U0001113f",
    "\\U000111d0", "\\U000111d1", "\\U000111d2", "\\U000111d3", "\\U000111d4", "\\U000111d5", "\\U000111d6", "\\U000111d7", "\\U000111d8", "\\U000111d9",
    "\\U000112f0", "\\U000112f1", "\\U000112f2", "\\U000112f3", "\\U000112f4", "\\U000112f5", "\\U000112f6", "\\U000112f7", "\\U000112f8", "\\U000112f9",
    "\\U00011450", "\\U00011451", "\\U00011452", "\\U00011453", "\\U00011454", "\\U00011455", "\\U00011456", "\\U00011457", "\\U00011458", "\\U00011459",
    "\\U000114d0", "\\U000114d1", "\\U000114d2", "\\U000114d3", "\\U000114d4", "\\U000114d5", "\\U000114d6", "\\U000114d7", "\\U000114d8", "\\U000114d9",
    "\\U00011650", "\\U00011651", "\\U00011652", "\\U00011653", "\\U00011654", "\\U00011655", "\\U00011656", "\\U00011657", "\\U00011658", "\\U00011659",
    "\\U000116c0", "\\U000116c1", "\\U000116c2", "\\U000116c3", "\\U000116c4", "\\U000116c5", "\\U000116c6", "\\U000116c7", "\\U000116c8", "\\U000116c9",
    "\\U00011730", "\\U00011731", "\\U00011732", "\\U00011733", "\\U00011734", "\\U00011735", "\\U00011736", "\\U00011737", "\\U00011738", "\\U00011739",
    "\\U000118e0", "\\U000118e1", "\\U000118e2", "\\U000118e3", "\\U000118e4", "\\U000118e5", "\\U000118e6", "\\U000118e7", "\\U000118e8", "\\U000118e9",
    "\\U00011950", "\\U00011951", "\\U00011952", "\\U00011953", "\\U00011954", "\\U00011955", "\\U00011956", "\\U00011957", "\\U00011958", "\\U00011959",
    "\\U00011c50", "\\U00011c51", "\\U00011c52", "\\U00011c53", "\\U00011c54", "\\U00011c55", "\\U00011c56", "\\U00011c57", "\\U00011c58", "\\U00011c59",
    "\\U00011d50", "\\U00011d51", "\\U00011d52", "\\U00011d53", "\\U00011d54", "\\U00011d55", "\\U00011d56", "\\U00011d57", "\\U00011d58", "\\U00011d59",
    "\\U00011da0", "\\U00011da1", "\\U00011da2", "\\U00011da3", "\\U00011da4", "\\U00011da5", "\\U00011da6", "\\U00011da7", "\\U00011da8", "\\U00011da9",
    "\\U00016a60", "\\U00016a61", "\\U00016a62", "\\U00016a63", "\\U00016a64", "\\U00016a65", "\\U00016a66", "\\U00016a67", "\\U00016a68", "\\U00016a69",
    "\\U00016ac0", "\\U00016ac1", "\\U00016ac2", "\\U00016ac3", "\\U00016ac4", "\\U00016ac5", "\\U00016ac6", "\\U00016ac7", "\\U00016ac8", "\\U00016ac9",
    "\\U00016b50", "\\U00016b51", "\\U00016b52", "\\U00016b53", "\\U00016b54", "\\U00016b55", "\\U00016b56", "\\U00016b57", "\\U00016b58", "\\U00016b59",
    "\\U0001d7ce", "\\U0001d7cf", "\\U0001d7d0", "\\U0001d7d1", "\\U0001d7d2", "\\U0001d7d3", "\\U0001d7d4", "\\U0001d7d5", "\\U0001d7d6", "\\U0001d7d7",
    "\\U0001d7d8", "\\U0001d7d9", "\\U0001d7da", "\\U0001d7db", "\\U0001d7dc", "\\U0001d7dd", "\\U0001d7de", "\\U0001d7df", "\\U0001d7e0", "\\U0001d7e1",
    "\\U0001d7e2", "\\U0001d7e3", "\\U0001d7e4", "\\U0001d7e5", "\\U0001d7e6", "\\U0001d7e7", "\\U0001d7e8", "\\U0001d7e9", "\\U0001d7ea", "\\U0001d7eb",
    "\\U0001d7ec", "\\U0001d7ed", "\\U0001d7ee", "\\U0001d7ef", "\\U0001d7f0", "\\U0001d7f1", "\\U0001d7f2", "\\U0001d7f3", "\\U0001d7f4", "\\U0001d7f5",
    "\\U0001d7f6", "\\U0001d7f7", "\\U0001d7f8", "\\U0001d7f9", "\\U0001d7fa", "\\U0001d7fb", "\\U0001d7fc", "\\U0001d7fd", "\\U0001d7fe", "\\U0001d7ff",
    "\\U0001e140", "\\U0001e141", "\\U0001e142", "\\U0001e143", "\\U0001e144", "\\U0001e145", "\\U0001e146", "\\U0001e147", "\\U0001e148", "\\U0001e149",
    "\\U0001e2f0", "\\U0001e2f1", "\\U0001e2f2", "\\U0001e2f3", "\\U0001e2f4", "\\U0001e2f5", "\\U0001e2f6", "\\U0001e2f7", "\\U0001e2f8", "\\U0001e2f9",
    "\\U0001e950", "\\U0001e951", "\\U0001e952", "\\U0001e953", "\\U0001e954", "\\U0001e955", "\\U0001e956", "\\U0001e957", "\\U0001e958", "\\U0001e959",
    "\\U0001fbf0", "\\U0001fbf1", "\\U0001fbf2", "\\U0001fbf3", "\\U0001fbf4", "\\U0001fbf5", "\\U0001fbf6", "\\U0001fbf7", "\\U0001fbf8", "\\U0001fbf9" }
AllDigits(s) == \A i \in DOMAIN s : s[i] \in Digits

\* The parser's _negative_number_matcher, '^-\d+$|^-\d*\.\d+$'; the $ also
\* matches in front of a newline that ends the word.
NegativeNumberLike(w) ==
  LET body == IF EndsWith(w, LF) THEN SubSeq(w, 1, Len(w) - 1) ELSE w
      rest == SubSeq(body, 2, Len(body))
  IN /\ body # <<>>
     /\ Head(body) = "-"
     /\ \/ rest # <<>> /\ AllDigits(rest)
        \/ \E k \in DOMAIN rest :
             /\ rest[k] = "."
             /\ AllDigits(SubSeq(rest, 1, k - 1))
             /\ k < Len(rest)
             /\ AllDigits(SubSeq(rest, k + 1, Len(rest)))

\* A word that is an argument, and a word that is an option string: its
\* action ("none" when the parser knows no such option), the option string
\* and the argument attached to it in the same word, None when none is.
Argument == [kind |-> "A"]
Optional(action, option, explicit) ==
  [kind |-> "O", action |-> action, option |-> option, explicit |-> explicit]

\* _get_option_tuples: the options a word abbreviates. A word of two dashes
\* stands for every option its part before "=" is a prefix of; a word of one
\* dash for the option that is its first two characters, the rest attached.
\* With the options of this parser no word has more than one reading.
OptionTuples(w) ==
  IF w[2] = "-"
    THEN LET eq == FindEq(w)
             prefix == IF eq = 0 THEN w ELSE SubSeq(w, 1, eq - 1)
             explicit == IF eq = 0 THEN PyNone ELSE PyStr(SubSeq(w, eq + 1, Len(w)))
         IN {Optional(ActionOf(o), o, explicit) : o \in {q \in Options : StartsWith(q, prefix)}}
    ELSE {Optional(ActionOf(o), o, PyStr(SubSeq(w, 3, Len(w)))) :
            o \in {q \in Options : q = SubSeq(w, 1, 2)}}
         \cup {Optional(ActionOf(o), o, PyNone) :
                 o \in {q \in Options : q # SubSeq(w, 1, 2) /\ StartsWith(q, w)}}

\* _parse_optional: what the word w is taken for.
Classify(w) ==
  LET eq == FindEq(w)
  IN IF w = <<>> \/ Head(w) # "-" THEN Argument
     ELSE IF w \in Options THEN Optional(ActionOf(w), w, PyNone)
     ELSE IF Len(w) = 1 THEN Argument
     ELSE IF eq # 0 /\ SubSeq(w, 1, eq - 1) \in Options
       THEN Optional(ActionOf(SubSeq(w, 1, eq - 1)), SubSeq(w, 1, eq - 1),
                     PyStr(SubSeq(w, eq + 1, Len(w))))
     ELSE IF OptionTuples(w) # {} THEN CHOOSE t \in OptionTuples(w) : TRUE
     ELSE IF NegativeNumberLike(w) THEN Argument
     ELSE IF \E i \in DOMAIN w : w[i] = " " THEN Argument
     ELSE Optional("none", w, PyNone)

\* The pattern of the command line at word i: "O" for an option string, "A"
\* for an argument, "-" for the first "--"; every word after that is an
\* argument.
KindAt(argv, i) ==
  IF \E j \in 1..(i - 1) : argv[j] = DASHDASH THEN "A"
  ELSE IF argv[i] = DASHDASH THEN "-"
  ELSE Classify(argv[i]).kind

\* parser.error(message): the usage and the message go to standard error and
\* the process exits with status 2.
ParseError(message, extras, explicit) ==
  [kind |-> "error", code |-> 2, message |-> message, extras |-> extras,
   explicit |-> explicit]

\* The help action: the help goes to standard output and the process exits
\* with status 0.
ParseHelp == [kind |-> "help", code |-> 0]

\* _get_values for -p (nargs None, no type): the first "--" among the words
\* the option was given is dropped; a single word left is the value, anything
\* else is the list of the words left (the empty list for -p-- and -p=--).
get_values(arg_strings) ==
  LET at == IF \E k \in DOMAIN arg_strings : arg_strings[k] = DASHDASH
              THEN CHOOSE k \in DOMAIN arg_strings :
                     /\ arg_strings[k] = DASHDASH
                     /\ \A j \in 1..(k - 1) : arg_strings[j] # DASHDASH
              ELSE 0
      kept == IF at = 0 THEN arg_strings
              ELSE SubSeq(arg_strings, 1, at - 1) \o SubSeq(arg_strings, at + 1, Len(arg_strings))
  IN IF Len(kept) = 1 THEN PyStr(kept[1])
     ELSE PyList([k \in DOMAIN kept |-> PyStr(kept[k])])

\* parse_args from word i on, p being the value of -p so far and extras the
\* words nothing takes (there is no positional argument). ParseFrom is the
\* loop of _parse_known_args and what follows it: a missing -p and then any
\* extras are errors. ConsumeOptional is consume_optional for the option at
\* word i: an unknown option is an extra; -h with more characters in its word
\* goes on with them as further short options; -p takes the argument attached
\* to its word, or else the next word when that is an argument, and its value
\* is what get_values makes of it; --help and -h
\* refuse an argument attached with "=". The actions are taken once the word
\* is consumed, help first when -h came before in the same word (helped).
RECURSIVE ParseFrom(_, _, _, _)
RECURSIVE ConsumeOptional(_, _, _, _, _, _, _, _)
ConsumeOptional(argv, i, p, extras, action, option, explicit, helped) ==
  IF action = "none" THEN ParseFrom(argv, i + 1, p, Append(extras, argv[i]))
  ELSE IF explicit # PyNone
    THEN IF action = "help"
           THEN IF option[2] # "-" /\ explicit.v # <<>>
                       /\ <<"-", Head(explicit.v)>> \in Options
                  THEN ConsumeOptional(argv, i, p, extras,
                                       ActionOf(<<"-", Head(explicit.v)>>),
                                       <<"-", Head(explicit.v)>>,
                                       IF Tail(explicit.v) = <<>> THEN PyNone
                                       ELSE PyStr(Tail(explicit.v)),
                                       TRUE)
                ELSE ParseError("argument -h/--help: ignored explicit argument",
                                <<>>, explicit.v)
         ELSE IF helped THEN ParseHelp
         ELSE ParseFrom(argv, i + 1, get_values(<<explicit.v>>), extras)
  ELSE IF action = "help" THEN ParseHelp
  ELSE IF i + 1 <= Len(argv) /\ KindAt(argv, i + 1) = "A"
    THEN IF helped THEN ParseHelp
         ELSE ParseFrom(argv, i + 2, get_values(<<argv[i + 1]>>), extras)
  ELSE ParseError("argument -p: expected one argument", <<>>, <<>>)

ParseFrom(argv, i, p, extras) ==
  IF i > Len(argv)
    THEN IF p = PyNone
           THEN ParseError("the following arguments are required: -p", <<>>, <<>>)
         ELSE IF extras # <<>> THEN ParseError("unrecognized arguments", extras, <<>>)
         ELSE [kind |-> "ok", p |-> p]
  ELSE IF KindAt(argv, i) # "O" THEN ParseFrom(argv, i + 1, p, Append(extras, argv[i]))
  ELSE ConsumeOptional(argv, i, p, extras, Classify(argv[i]).action,
                       Classify(argv[i]).option, Classify(argv[i]).explicit, FALSE)

\* p.parse_args() with the single required option -p.
parse_args(argv) == ParseFrom(argv, 1, PyNone, <<>>)

\* raise SystemExit(code)
SystemExit(code) == [kind |-> "raise", exc |-> [type |-> "SystemExit", msg |-> ToString(code)]]

\* The process before main() has run: nothing said, nothing written; the
\* working directory holds the file "a" of text.
InitMain ==
  /\ pc = "MAIN"
  /\ messages = <<>>
  /\ tool_calls = <<>>
  /\ idx = 0
  /\ outcome = [kind |-> "running"]
  /\ fs = Put(EmptyFS, <<"a">>, FileNode(<<"o", "l", "d">>))
  /\ resp = [choices |-> <<>>]
  /\ service_calls = 0
  /\ issued = 0
  /\ invoked = <<>>
  /\ stdout = <<>>

\* parse_args() refuses the command line: the error goes to standard error
\* and the process exits with status 2, the key not looked at.
ArgumentsRejected ==
  /\ pc = "MAIN"
  /\ \E argv \in Argvs :
       /\ parse_args(argv).kind = "error"
       /\ outcome' = SystemExit(parse_args(argv).code)
  /\ pc' = "RAISED"
  /\ UNCHANGED <<messages, tool_calls, idx, fs, resp, service_calls, issued, invoked, stdout>>

\* parse_args() meets -h or --help: the help goes to standard output and the
\* process exits with status 0, the key not looked at.
HelpPrinted ==
  /\ pc = "MAIN"
  /\ \E argv \in Argvs :
       /\ parse_args(argv).kind = "help"
       /\ outcome' = SystemExit(parse_args(argv).code)
  /\ stdout' = stdout \o HelpText
  /\ pc' = "EXITED"
  /\ UNCHANGED <<messages, tool_calls, idx, fs, resp, service_calls, issued, invoked>>

\* if not API_KEY: raise RuntimeError("OPENROUTER_API_KEY is not set")
StartupFails ==
  /\ pc = "MAIN"
  /\ \E argv \in Argvs : parse_args(argv).kind = "ok"
  /\ \E key \in ApiKeys : ~Truthy(key)
  /\ pc' = "RAISED"
  /\ outcome' = [kind |-> "raise",
                 exc |-> [type |-> "RuntimeError", msg |-> "OPENROUTER_API_KEY is not set"]]
  /\ UNCHANGED <<messages, tool_calls, idx, fs, resp, service_calls, issued, invoked, stdout>>

\* run_agent_loop is entered with user_prompt=args.p: the conversation state
\* is seeded with the prompt.
LoopEntered ==
  /\ pc = "MAIN"
  /\ \E key \in ApiKeys : Truthy(key)
  /\ \E argv \in Argvs :
       /\ parse_args(argv).kind = "ok"
       /\ messages' = << [role |-> "user", content |-> parse_args(argv).p] >>
  /\ pc' = "AWAITING_MODEL"
  /\ UNCHANGED <<tool_calls, idx, outcome, fs, resp, service_calls, issued, invoked, stdout>>

\* What print(final_text) would write: the text and a newline.
Written_Line(final_text) == final_text.v \o <<LF>>

\* What sys.stdout.write(final_text) writes.
Written(final_text) == final_text.v

\* run_agent_loop has returned: sys.stdout.write(final_text), and main() ends.
FinalTextWritten ==
  /\ pc = "RETURNED"
  /\ stdout' = stdout \o Written(outcome.value)
  /\ pc' = "EXITED"
  /\ UNCHANGED <<messages, tool_calls, idx, outcome, fs, resp, service_calls, issued, invoked>>

NextMain ==
  ArgumentsRejected \/ HelpPrinted \/ StartupFails \/ LoopEntered \/ Next \/ FinalTextWritten

SpecMain == InitMain /\ [][NextMain]_vars

\* ------------------------------------------------- the tools called directly

\* The paths and texts the tools are called with.
ToolPaths == { <<"a">>, <<".", "/", "a">>, <<"d", "/", "b">>, <<"d">>, <<"d", "/">> }

ToolTexts == { <<>>, <<"x">>, <<"x", LF>>, <<"x", CR, LF>>, <<CR>>, <<SURROGATE>> }

\* What subprocess.run may report: a launch failure, or any of these return
\* codes with any of these captured streams.
ReturnCodes == {-9, 0, 1, 7, 127}
Stdouts == { <<>>, <<"h", "i", LF>>, <<"h", "i">>, <<LF>>, <<"h", LF, LF>> }
Stderrs == { <<>>, <<"w">>, <<"w", LF>>, <<LF>> }

\* The commands tool_bash is called with: a text, and the list of one text
\* that subprocess.run takes as well.
ToolCommands == { PyStr(<<"l", "s">>), PyList(<<PyStr(<<"l", "s">>)>>) }

ToolRuns ==
  {NotLaunched(e) : e \in { <<"e">>, <<>> }}
    \cup {Completed(rc, out, err) : rc \in ReturnCodes, out \in Stdouts, err \in Stderrs}

InitHarness(at) ==
  /\ pc = at
  /\ messages = <<>>
  /\ tool_calls = <<>>
  /\ idx = 0
  /\ outcome = [kind |-> "running"]
  /\ resp = [choices |-> <<>>]
  /\ service_calls = 0
  /\ issued = 0
  /\ invoked = <<>>
  /\ stdout = <<>>

InitTools == InitHarness("TOOLS") /\ fs \in InitialFS

\* tool_write(file_path, content) is called.
WriteCalled ==
  /\ pc = "TOOLS"
  /\ Len(invoked) < MaxOps
  /\ \E p \in ToolPaths, c \in ToolTexts :
       LET r == tool_write(fs, PyStr(p), PyStr(c))
       IN /\ fs' = r.fs
          /\ invoked' = Append(invoked, [fn |-> "tool_write", args |-> <<PyStr(p), PyStr(c)>>,
                                         exc |-> r.exc, out |-> r.out])
  /\ UNCHANGED <<pc, messages, tool_calls, idx, outcome, resp, service_calls, issued,
               stdout>>

\* tool_read(file_path) is called.
ReadCalled ==
  /\ pc = "TOOLS"
  /\ Len(invoked) < MaxOps
  /\ \E p \in ToolPaths :
       LET r == tool_read(fs, PyStr(p))
       IN /\ fs' = r.fs
          /\ invoked' = Append(invoked, [fn |-> "tool_read", args |-> <<PyStr(p)>>,
                                         exc |-> r.exc, out |-> r.out])
  /\ UNCHANGED <<pc, messages, tool_calls, idx, outcome, resp, service_calls, issued,
               stdout>>

NextTools == WriteCalled \/ ReadCalled

SpecTools == InitTools /\ [][NextTools]_vars

InitBash == InitHarness("BASH") /\ fs = EmptyFS

\* tool_bash(command) is called; invoked holds the latest call only.
BashCalled ==
  /\ pc = "BASH"
  /\ \E command \in ToolCommands, run \in ToolRuns :
       LET out == PyStr(tool_bash(command, run))
       IN invoked' = << [fn |-> "tool_bash", args |-> <<command>>, exc |-> "", out |-> out,
                         run |-> run] >>
  /\ UNCHANGED <<pc, messages, tool_calls, idx, outcome, fs, resp, service_calls, issued,
               stdout>>

NextBash == BashCalled

SpecBash == InitBash /\ [][NextBash]_vars

\* ==================================================================== claims

\* Helpers of the claims: reading the transcript.
IsAssistant(m) == m.role = "assistant"
IsTool(m) == m.role = "tool"
RequestsOf(m) == IF "tool_calls" \in DOMAIN m THEN m.tool_calls ELSE <<>>
RequestIds(m) == {RequestsOf(m)[k].id : k \in DOMAIN RequestsOf(m)}
ToolIndices == {i \in DOMAIN messages : IsTool(messages[i])}
\* The position of the most recent assistant message, 0 when there is none.
LastAssistant ==
  IF \E i \in DOMAIN messages : IsAssistant(messages[i])
    THEN CHOOSE i \in DOMAIN messages :
           IsAssistant(messages[i]) /\ \A j \in DOMAIN messages : IsAssistant(messages[j]) => j <= i
    ELSE 0
\* The request the for loop is at, and its decoded arguments.
CurrentCall == tool_calls[idx]
DecodedArgs(tc) ==
  json_loads(IF tc.function.arguments = "" THEN "{}" ELSE tc.function.arguments)
Dispatching == pc = "AWAITING_TOOL_RESULTS"
\* The last response asked for no tool.
LastResponseFinal ==
  /\ service_calls > 0
  /\ resp.choices # <<>>
  /\ resp.choices[1].message.tool_calls \in {PyNone, PyList(<<>>)}

\* C1 (Termination): once the service has returned a response without tool
\* invocation requests, the loop has returned exactly that response's content,
\* the empty text when the content is absent, and makes no further step (no
\* other service call).
C1_Termination ==
  LastResponseFinal =>
    /\ pc = "RETURNED"
    /\ outcome.kind = "return"
    /\ outcome.value = (IF resp.choices[1].message.content = PyNone THEN PyStr(<<>>)
                        ELSE resp.choices[1].message.content)
    /\ ~ENABLED Next

\* C1 witness: after a round of tools, a final response without content has
\* ended the run with the empty text.
C1_Witness ==
  /\ LastResponseFinal
  /\ service_calls >= 2
  /\ resp.choices[1].message.content = PyNone
  /\ outcome = [kind |-> "return", value |-> PyStr(<<>>)]

\* C2 (Transcript correlation): every tool-role message has exactly one
\* earlier assistant message holding a request with its tool_call_id, and no
\* two tool-role messages carry the same tool_call_id.
C2_TranscriptCorrelation ==
  /\ \A i \in ToolIndices :
       Cardinality({j \in 1..(i - 1) :
                      /\ IsAssistant(messages[j])
                      /\ messages[i].tool_call_id \in RequestIds(messages[j])}) = 1
  /\ \A i, j \in ToolIndices : messages[i].tool_call_id = messages[j].tool_call_id => i = j

\* C2 witness: two tool-role messages answering requests of two different
\* assistant messages.
C2_Witness ==
  \E i, j \in ToolIndices :
    /\ i < j
    /\ \E k \in (i + 1)..(j - 1) : IsAssistant(messages[k])

\* C3 (Request/answer completeness): whenever the loop is about to call the
\* service again, the messages after the most recent assistant message are
\* tool-role messages, one per request of that assistant message: every
\* request is answered by exactly one of them and each of them answers exactly
\* one request of it.  (While a request is unanswered the loop is dispatching,
\* not calling.)
C3_RequestsAnswered ==
  (pc = "AWAITING_MODEL" /\ service_calls >= 1) =>
    LET a == LastAssistant
        reqs == RequestsOf(messages[a])
        after == (a + 1)..Len(messages)
    IN /\ a > 0
       /\ reqs # <<>>
       /\ \A k \in DOMAIN reqs :
            Cardinality({i \in after : IsTool(messages[i])
                                       /\ messages[i].tool_call_id = reqs[k].id}) = 1
       /\ \A i \in after :
            /\ IsTool(messages[i])
            /\ Cardinality({k \in DOMAIN reqs : reqs[k].id = messages[i].tool_call_id}) = 1

\* C3 witness: a response with two requests has been answered in full and the
\* next service call is due.
C3_Witness ==
  /\ pc = "AWAITING_MODEL"
  /\ service_calls >= 1
  /\ Len(RequestsOf(messages[LastAssistant])) = 2
  /\ Len(messages) = LastAssistant + 2

\* C4 (Unknown tool): when the for loop is at a request naming a tool that is
\* not in the registry, its step aborts the run with an error and calls no
\* tool implementation (and leaves filesystem and transcript alone).
C4_UnknownToolAborts ==
  [][(Dispatching /\ CurrentCall.function.name \notin ToolNames) =>
       /\ pc' = "RAISED"
       /\ outcome'.kind = "raise"
       /\ invoked' = invoked
       /\ fs' = fs
       /\ messages' = messages]_vars

\* C4 witness: a run aborted at a request for the tool Grep, after an earlier
\* request of the same response was served.
C4_Witness ==
  /\ pc = "RAISED"
  /\ idx = 2
  /\ tool_calls[idx].function.name = "Grep"
  /\ outcome.exc.msg = "Unsupported tool: Grep"
  /\ Len(invoked) = 1

\* C5 (Argument validation): when the for loop is at a Write request whose
\* decoded arguments (a JSON object) have no content, its step aborts the run
\* with a missing-argument error, calls no tool implementation and leaves the
\* filesystem as it was: no directory or file is created, no file truncated.
C5_WriteWithoutContent ==
  [][(/\ Dispatching
      /\ CurrentCall.function.name = "Write"
      /\ DecodedArgs(CurrentCall).ok
      /\ DecodedArgs(CurrentCall).val.t = "dict"
      /\ "content" \notin DOMAIN DecodedArgs(CurrentCall).val.v) =>
       /\ pc' = "RAISED"
       /\ outcome'.kind = "raise"
       /\ outcome'.exc.type = "RuntimeError"
       /\ outcome'.exc.msg \in {MissingArgument(n) : n \in Required("Write")}
       /\ invoked' = invoked
       /\ fs' = fs]_vars

\* C5 witness: a run aborted for the missing content of a Write request that
\* names a path, the file at that path still holding what it held at start.
C5_Witness ==
  /\ pc = "RAISED"
  /\ idx >= 1
  /\ tool_calls[idx].function = [name |-> "Write", arguments |-> RAW_PATH_A]
  /\ outcome.exc.msg = "Missing required argument: content"
  /\ IsFile(fs, <<"a">>)
  /\ fs[<<"a">>].data = <<"o", "l", "d">>

\* The for loop is at a request for the registered tool name whose decoded
\* arguments are a JSON object without the parameter p.
LacksParameter(name, p) ==
  /\ Dispatching
  /\ CurrentCall.function.name = name
  /\ DecodedArgs(CurrentCall).ok
  /\ DecodedArgs(CurrentCall).val.t = "dict"
  /\ p \notin DOMAIN DecodedArgs(CurrentCall).val.v

\* The dispatcher takes parameter p of args for missing: absent or null, and
\* for every parameter but content also empty.
TakenForMissing(args, p) ==
  \/ p \notin DOMAIN args.v
  \/ args.v[p] = PyNone
  \/ p # "content" /\ ~Truthy(args.v[p])

\* The first parameter, in the order of the schema's required list, that the
\* dispatcher takes for missing.
FirstTakenForMissing(name, args) ==
  LET t == TOOLS[CHOOSE j \in DOMAIN TOOLS : TOOLS[j].name = name]
      k == CHOOSE i \in DOMAIN t.required :
             /\ TakenForMissing(args, t.required[i])
             /\ \A h \in 1..(i - 1) : ~TakenForMissing(args, t.required[h])
  IN t.required[k]

\* C6 as stated (Required-parameter rejection): a request for a registered
\* tool whose decoded arguments lack a required parameter aborts the run with
\* a message naming a parameter the arguments lack, and does not call the
\* tool's implementation.
C6_NamesLackingParameter ==
  [][\A name \in ToolNames : \A p \in Required(name) :
       LacksParameter(name, p) =>
         /\ pc' = "RAISED"
         /\ outcome'.kind = "raise"
         /\ outcome'.exc.msg \in
              {MissingArgument(q) : q \in {r \in Required(name) : LacksParameter(name, r)}}
         /\ invoked' = invoked]_vars

\* C6 amended: such a request aborts the run with "Missing required argument:"
\* and the name of the first parameter, in the order of the schema's required
\* list, that is absent, null or (file_path, command) empty; the tool's
\* implementation is not called.
C6_NamesFirstTakenForMissing ==
  [][\A name \in ToolNames : \A p \in Required(name) :
       LacksParameter(name, p) =>
         /\ pc' = "RAISED"
         /\ outcome'.kind = "raise"
         /\ outcome'.exc.type = "RuntimeError"
         /\ outcome'.exc.msg =
              MissingArgument(FirstTakenForMissing(name, DecodedArgs(CurrentCall).val))
         /\ invoked' = invoked]_vars

\* C6 witness: a Write request without file_path and content has aborted the
\* run naming file_path, after an earlier request was served.
C6_Witness ==
  /\ pc = "RAISED"
  /\ idx = 2
  /\ tool_calls[idx].function = [name |-> "Write", arguments |-> RAW_EMPTY]
  /\ outcome.exc.msg = "Missing required argument: file_path"
  /\ Len(invoked) = 1

\* Call i of the log is a call of fn that returned.
ReturnedCall(i, fn) == invoked[i].fn = fn /\ invoked[i].exc = ""

\* C7 as stated (Write/Read round-trip): a tool_read of a path right after a
\* tool_write to that path returned gives back exactly the content written.
C7_WriteReadRoundTrip ==
  \A i \in 1..(Len(invoked) - 1) :
    (/\ ReturnedCall(i, "tool_write")
     /\ invoked[i + 1].fn = "tool_read"
     /\ invoked[i + 1].args[1] = invoked[i].args[1]) =>
      /\ invoked[i + 1].exc = ""
      /\ invoked[i + 1].out = invoked[i].args[2]

\* C8 as stated (Write overwrite semantics): after a tool_write returned, the
\* file at its path holds exactly its content, and a tool_read of a path after
\* two tool_writes to it gives back exactly the content of the second.
C8_LastWriteWins ==
  /\ (Len(invoked) > 0 /\ ReturnedCall(Len(invoked), "tool_write")) =>
       LET last == invoked[Len(invoked)]
       IN /\ IsFile(fs, NodeOf(last.args[1].v))
          /\ fs[NodeOf(last.args[1].v)].data = last.args[2].v
  /\ \A i \in 1..(Len(invoked) - 2) :
       (/\ ReturnedCall(i, "tool_write")
        /\ ReturnedCall(i + 1, "tool_write")
        /\ invoked[i + 1].args[1] = invoked[i].args[1]
        /\ invoked[i + 2].fn = "tool_read"
        /\ invoked[i + 2].args[1] = invoked[i].args[1]) =>
         /\ invoked[i + 2].exc = ""
         /\ invoked[i + 2].out = invoked[i + 1].args[2]

\* s has sub as a contiguous part.
Contains(s, sub) ==
  \E i \in 0..(Len(s) - Len(sub)) : SubSeq(s, i + 1, i + Len(sub)) = sub

STDOUT_LABEL == <<"S", "T", "D", "O", "U", "T", ":", LF>>
STDERR_LABEL == <<"S", "T", "D", "E", "R", "R", ":", LF>>

\* C9 (Bash result contract): for a command that was launched, a non-zero
\* return code gives a text containing the code, the captured stdout under the
\* label STDOUT: and the captured stderr under the label STDERR:; a zero return
\* code gives stdout followed by stderr when stderr is not empty, with a
\* newline between them only when stdout is not empty and does not end in one.
C9_BashResult ==
  \A i \in DOMAIN invoked :
    (invoked[i].fn = "tool_bash" /\ invoked[i].run.launched) =>
      LET run == invoked[i].run
          out == invoked[i].out.v
          gap == IF run.stdout # <<>> /\ ~EndsWith(run.stdout, LF) THEN <<LF>> ELSE <<>>
      IN IF run.returncode # 0
           THEN /\ Contains(out, IntStr(run.returncode))
                /\ Contains(out, STDOUT_LABEL \o run.stdout)
                /\ Contains(out, STDERR_LABEL \o run.stderr)
           ELSE out = run.stdout \o (IF run.stderr # <<>> THEN gap \o run.stderr ELSE <<>>)

\* C9 witness: a command that exited 0 with "hi" on stdout and "w" on stderr
\* gave "hi\nw".
C9_Witness ==
  /\ Len(invoked) = 1
  /\ invoked[1].run = Completed(0, <<"h", "i">>, <<"w">>)
  /\ invoked[1].out = PyStr(<<"h", "i", LF, "w">>)

\* The for loop is at a Bash request with a command.
BashRequest ==
  /\ Dispatching
  /\ CurrentCall.function.name = "Bash"
  /\ DecodedArgs(CurrentCall).ok
  /\ DecodedArgs(CurrentCall).val.t = "dict"
  /\ Truthy(DictGet(DecodedArgs(CurrentCall).val, "command"))

\* C10 (Recoverable tool failures): the step of a Bash request with a command
\* calls tool_bash, and when the command could not be launched or exited
\* non-zero the run is not aborted: the failure text (starting with "ERROR:"
\* for a launch failure) is appended as the tool-role message of that request,
\* and the loop goes on to the next request of the response or, after the
\* last, to the next service call.
C10_BashFailureRecoverable ==
  [][BashRequest =>
       /\ Len(invoked') = Len(invoked) + 1
       /\ LET call == invoked'[Len(invoked')]
          IN /\ call.fn = "tool_bash"
             /\ (~call.run.launched \/ call.run.returncode # 0) =>
                  /\ pc' # "RAISED"
                  /\ outcome' = outcome
                  /\ SubSeq(call.out.v, 1, 5) = <<"E", "R", "R", "O", "R">>
                  /\ ~call.run.launched => call.out.v[6] = ":"
                  /\ messages' = Append(messages, [role |-> "tool",
                                                   tool_call_id |-> CurrentCall.id,
                                                   content |-> call.out])
                  /\ IF idx < Len(tool_calls)
                       THEN pc' = "AWAITING_TOOL_RESULTS" /\ idx' = idx + 1
                            /\ tool_calls' = tool_calls
                       ELSE pc' = "AWAITING_MODEL"]_vars

\* C10 witness: a command could not be launched, its failure text answered the
\* request, the next request of the response was answered too and the service
\* was called again.
C10_Witness ==
  /\ service_calls = 2
  /\ \E i \in ToolIndices :
       /\ messages[i].content = PyStr(LaunchFailure(<<"e">>))
       /\ i + 1 \in ToolIndices

\* The request the for loop is at fails fatally: its arguments do not decode,
\* or it names no registered tool, or the dispatcher takes a required
\* parameter for missing, or it is a Read of a value that is not a path, of
\* a path that cannot be opened or of a file whose bytes cannot be decoded.
ArgumentsUndecodable == Dispatching /\ ~DecodedArgs(CurrentCall).ok
UnknownTool ==
  Dispatching /\ DecodedArgs(CurrentCall).ok /\ CurrentCall.function.name \notin ToolNames
RequiredMissing ==
  /\ Dispatching
  /\ DecodedArgs(CurrentCall).ok
  /\ DecodedArgs(CurrentCall).val.t = "dict"
  /\ CurrentCall.function.name \in ToolNames
  /\ \E p \in Required(CurrentCall.function.name) :
       TakenForMissing(DecodedArgs(CurrentCall).val, p)
ReadUnreadable ==
  /\ Dispatching
  /\ CurrentCall.function.name = "Read"
  /\ DecodedArgs(CurrentCall).ok
  /\ DecodedArgs(CurrentCall).val.t = "dict"
  /\ ~RequiredMissing
  /\ LET file_path == DecodedArgs(CurrentCall).val.v["file_path"]
         p == file_path.v
     IN \/ ~IsStr(file_path)
        \/ ResolveError(fs, p) # ""
        \/ ~IsFile(fs, NodeOf(p))
        \/ p # RStripSlash(p)
        \/ \E i \in DOMAIN fs[NodeOf(p)].data : fs[NodeOf(p)].data[i] = BADBYTE

\* C11 (Fatal failures stop the run immediately): a response without a
\* candidate aborts the run in the step that receives it, with no message
\* appended and no tool invoked; a request whose arguments do not decode, that
\* names an unknown tool, that misses a required argument or that is a Read of
\* an unreadable target aborts the run in its own step, with no message
\* appended, no service call made and no tool invoked but the failing
\* tool_read itself; and no step at all follows an abort (no service call, no
\* tool, not even for the later requests of the same response, no message).
C11_FatalStopsRun ==
  [][/\ pc # "RAISED"
     /\ (service_calls' # service_calls /\ resp'.choices = <<>>) =>
          /\ pc' = "RAISED"
          /\ outcome'.kind = "raise"
          /\ messages' = messages
          /\ invoked' = invoked
     /\ (ArgumentsUndecodable \/ UnknownTool \/ RequiredMissing \/ ReadUnreadable) =>
          /\ pc' = "RAISED"
          /\ outcome'.kind = "raise"
          /\ messages' = messages
          /\ service_calls' = service_calls
          /\ IF ReadUnreadable
               THEN /\ Len(invoked') = Len(invoked) + 1
                    /\ SubSeq(invoked', 1, Len(invoked)) = invoked
                    /\ invoked'[Len(invoked')].fn = "tool_read"
                    /\ invoked'[Len(invoked')].exc # ""
               ELSE invoked' = invoked]_vars

\* C11 witness: the run aborted at the first of two requests, a Read of a file
\* that is not UTF-8; the second request was never handled.
C11_Witness ==
  /\ pc = "RAISED"
  /\ idx = 1
  /\ Len(tool_calls) = 2
  /\ tool_calls[1].function = [name |-> "Read", arguments |-> RAW_PATH_A]
  /\ outcome.exc.type = "UnicodeDecodeError"
  /\ Len(invoked) = 1
  /\ Len(messages) = 2

\* How many assistant messages the conversation state holds.
AssistantCount == Cardinality({i \in DOMAIN messages : IsAssistant(messages[i])})

\* The iteration that appended the assistant message at position a is
\* complete: a later one has started, or the loop is between iterations or
\* has returned.
IterationComplete(a) == a # LastAssistant \/ pc \in {"AWAITING_MODEL", "RETURNED"}

\* C13 (Conversation-state lifecycle): the conversation state starts as the one
\* user message holding the prompt and keeps it first; every step leaves the
\* messages already there unchanged in their positions and appends at most
\* one; and every completed iteration has appended one assistant message
\* followed by exactly one tool message per request of it (none when it has
\* none), the next iteration's assistant message coming right after.
C13_Lifecycle ==
  /\ [](/\ Len(messages) >= 1
        /\ messages[1] = [role |-> "user", content |-> PyStr(user_prompt)]
        /\ service_calls = 0 => Len(messages) = 1
        /\ pc \in {"AWAITING_MODEL", "RETURNED", "AWAITING_TOOL_RESULTS"} =>
             AssistantCount = service_calls
        /\ Len(messages) >= 2 => IsAssistant(messages[2])
        /\ \A a \in DOMAIN messages :
             (IsAssistant(messages[a]) /\ IterationComplete(a)) =>
               LET n == Len(RequestsOf(messages[a]))
               IN /\ Len(messages) >= a + n
                  /\ \A i \in (a + 1)..(a + n) : IsTool(messages[i])
                  /\ Len(messages) > a + n => IsAssistant(messages[a + n + 1]))
  /\ [][/\ Len(messages') \in {Len(messages), Len(messages) + 1}
        /\ SubSeq(messages', 1, Len(messages)) = messages]_vars

\* C13 witness: two iterations are complete, each having appended an assistant
\* message and the tool message of its one request.
C13_Witness ==
  /\ pc = "AWAITING_MODEL"
  /\ service_calls = 2
  /\ Len(messages) = 5
  /\ IsAssistant(messages[2]) /\ IsTool(messages[3])
  /\ IsAssistant(messages[4]) /\ IsTool(messages[5])

\* All the requests of the assistant messages up to position i, in the order
\* of the transcript.
RECURSIVE RequestsUpTo(_)
RequestsUpTo(i) == IF i = 0 THEN <<>> ELSE RequestsUpTo(i - 1) \o RequestsOf(messages[i])
\* The tool messages of the transcript, in its order.
ToolMessages == SelectSeq(messages, IsTool)
\* The implementation the dispatcher routes a registered tool name to.
ImplementationOf(name) ==
  CASE name = "Read" -> "tool_read" [] name = "Write" -> "tool_write"
    [] name = "Bash" -> "tool_bash" [] OTHER -> "none"

\* C14 (Strictly sequential, ordered dispatch): the tool messages answer the
\* requests in the order the requests were received, one after the other: the
\* j-th tool message carries the id of the j-th request and the output of the
\* j-th tool invocation, which ran the implementation that request names; no
\* tool is invoked for a request while an earlier request has no tool message
\* (at most the one invocation that aborted the run lacks its message); the
\* for loop stands at the first unanswered request of the last response; and
\* a step calls the service once and invokes no tool, or handles one request
\* and calls no service, the service being called only when every request has
\* its tool message.
C14_SequentialDispatch ==
  /\ [](LET reqs == RequestsUpTo(Len(messages))
            answers == ToolMessages
        IN /\ Len(answers) <= Len(reqs)
           /\ \A j \in DOMAIN answers :
                /\ answers[j].tool_call_id = reqs[j].id
                /\ invoked[j].fn = ImplementationOf(reqs[j].function.name)
                /\ invoked[j].exc = ""
                /\ invoked[j].out = answers[j].content
           /\ Len(invoked) \in {Len(answers), Len(answers) + 1}
           /\ Len(invoked) = Len(answers) + 1 =>
                pc = "RAISED" /\ invoked[Len(invoked)].exc # ""
           /\ pc = "AWAITING_MODEL" => Len(answers) = Len(reqs)
           /\ Dispatching =>
                /\ tool_calls = RequestsOf(messages[LastAssistant])
                /\ Len(messages) = LastAssistant + idx - 1
                /\ idx \in DOMAIN tool_calls)
  /\ [][/\ service_calls' \in {service_calls, service_calls + 1}
        /\ service_calls' # service_calls =>
             ~Dispatching /\ invoked' = invoked /\ fs' = fs
        /\ Dispatching =>
             /\ service_calls' = service_calls
             /\ Len(invoked') <= Len(invoked) + 1
             /\ idx' \in {idx, idx + 1, 0}]_vars

\* C14 witness: a response with two requests for different tools has been
\* handled in full, the tool messages in the order of the requests.
C14_Witness ==
  /\ pc = "AWAITING_MODEL"
  /\ Len(tool_calls) = 2
  /\ Len(messages) = 4
  /\ messages[3].tool_call_id = tool_calls[1].id
  /\ messages[4].tool_call_id = tool_calls[2].id
  /\ tool_calls[1].function.name = "Write"
  /\ tool_calls[2].function.name = "Read"
  /\ Len(invoked) = 2

\* Every request received so far has its tool message.
AllAnswered == Len(ToolMessages) = Len(RequestsUpTo(Len(messages)))

\* C15 (No iteration bound): the loop has returned only when the last response
\* carried no request and has raised only with an error; whenever the
\* responses received so far all carried requests and every request was
\* dispatched without a fatal failure, the loop is about to call the service
\* again, and, however many calls were made (up to the bound of the model),
\* that call can be made, whatever it brings; and while the for loop runs it
\* stands at a request whose handling either yields an output or aborts.
C15_NoIterationBound ==
  /\ pc \in {"AWAITING_MODEL", "AWAITING_TOOL_RESULTS", "RETURNED", "RAISED"}
  /\ pc = "RETURNED" => LastResponseFinal
  /\ pc = "RAISED" => outcome.kind = "raise"
  /\ (/\ service_calls >= 1
      /\ resp.choices # <<>>
      /\ ~LastResponseFinal
      /\ AllAnswered) => pc = "AWAITING_MODEL"
  /\ pc = "AWAITING_MODEL" =>
       /\ outcome.kind = "running"
       /\ AssistantCount = service_calls
       /\ \A a \in DOMAIN messages : IsAssistant(messages[a]) => RequestsOf(messages[a]) # <<>>
       /\ service_calls < MaxServiceCalls =>
            /\ ENABLED NoChoices
            /\ ENABLED FinalAnswer
            /\ issued < MaxToolCalls => ENABLED ToolsRequested
  /\ Dispatching =>
       /\ idx \in DOMAIN tool_calls
       /\ \A run \in LoopRuns : Dispatch(fs, RequestAt(tool_calls, idx), run).raised \in BOOLEAN

\* C15 witness: two responses carried requests that were dispatched without a
\* fatal failure, and a third service call is due and can be made.
C15_Witness ==
  /\ pc = "AWAITING_MODEL"
  /\ service_calls = 2
  /\ AssistantCount = 2
  /\ AllAnswered
  /\ ENABLED FinalAnswer

\* The required parameters of a registered tool, in the order of its schema.
RequiredList(name) == TOOLS[CHOOSE j \in DOMAIN TOOLS : TOOLS[j].name = name].required

\* The for loop is at a request for a registered tool whose decoded arguments
\* (a JSON object) contain every required parameter.
AllRequiredPresent ==
  /\ Dispatching
  /\ CurrentCall.function.name \in ToolNames
  /\ DecodedArgs(CurrentCall).ok
  /\ DecodedArgs(CurrentCall).val.t = "dict"
  /\ \A p \in Required(CurrentCall.function.name) : p \in DOMAIN DecodedArgs(CurrentCall).val.v

\* ... and none of them has a value the dispatcher takes for missing (null, or
\* a file_path or command that is empty or falsy in another way: an empty
\* list, an empty object).
AllRequiredUsable ==
  /\ AllRequiredPresent
  /\ \A p \in Required(CurrentCall.function.name) :
       ~TakenForMissing(DecodedArgs(CurrentCall).val, p)

\* The step is an abort with a missing-argument error.
MissingArgumentAbort ==
  /\ pc' = "RAISED"
  /\ outcome'.kind = "raise"
  /\ outcome'.exc.msg \in {MissingArgument(p) : p \in {"file_path", "content", "command"}}

\* The step invokes the implementation of the current request with the values
\* of its required parameters.
InvokedWithArguments ==
  LET name == CurrentCall.function.name
      args == DecodedArgs(CurrentCall).val.v
      req == RequiredList(name)
  IN /\ Len(invoked') = Len(invoked) + 1
     /\ SubSeq(invoked', 1, Len(invoked)) = invoked
     /\ invoked'[Len(invoked')].fn = ImplementationOf(name)
     /\ invoked'[Len(invoked')].args = [k \in DOMAIN req |-> args[req[k]]]

\* The step appends the tool message holding the result of that invocation.
ResultAppended ==
  /\ pc' # "RAISED"
  /\ invoked'[Len(invoked')].exc = ""
  /\ messages' = Append(messages, [role |-> "tool", tool_call_id |-> CurrentCall.id,
                                   content |-> invoked'[Len(invoked')].out])

\* The request is accepted: no missing-argument abort; the implementation is
\* invoked with the values given; when it returns, a tool message with its
\* result is appended, and when it raises (tool_read and tool_write may) the
\* run is aborted with its error and no message is appended.
Accepted ==
  /\ ~MissingArgumentAbort
  /\ InvokedWithArguments
  /\ IF invoked'[Len(invoked')].exc = ""
       THEN ResultAppended
       ELSE /\ pc' = "RAISED"
            /\ outcome'.exc.type = invoked'[Len(invoked')].exc
            /\ messages' = messages

\* C16 as stated (Validation accepts present parameters): a request for a
\* registered tool whose arguments contain every required parameter, whatever
\* the values (an empty file_path, content or command included), is not
\* aborted with a missing-argument error: the implementation is invoked with
\* those values and a tool message with its result is appended.
C16_AcceptsPresent == [][AllRequiredPresent => Accepted]_vars

\* C16 amended: the same for a request whose required parameters all have a
\* value that is not null and, for file_path and command, not empty or falsy
\* in another way (an empty content is accepted), whatever the type of the
\* value; the tool message is appended when the implementation returns.
C16_AcceptsUsable == [][AllRequiredUsable => Accepted]_vars

\* C16 witness: a Write with an empty content was accepted, tool_write was
\* called with the empty text and its confirmation appended; then a Read with
\* a list holding a path for its file_path was accepted too: tool_read was
\* called with the list, and its TypeError aborted the run.
C16_Witness ==
  /\ Len(invoked) = 2
  /\ invoked[1].fn = "tool_write"
  /\ invoked[1].args = <<PyStr(<<"a">>), PyStr(<<>>)>>
  /\ invoked[1].exc = ""
  /\ \E i \in ToolIndices : messages[i].content = PyStr(WroteMessage(<<"a">>, <<>>))
  /\ invoked[2].fn = "tool_read"
  /\ invoked[2].args = <<PyList(<<PyStr(<<"a">>)>>)>>
  /\ invoked[2].exc = "TypeError"
  /\ pc = "RAISED"
  /\ outcome.exc.type = "TypeError"

\* The requests of the response received last, as the service produced them.
ResponseRequests == PyOr(resp.choices[1].message.tool_calls, PyList(<<>>)).v

\* C17 (Message shape): every message has role user, assistant or tool; the
\* one user message is the first; a tool_calls list is only on assistant
\* messages, is never empty, and on the latest assistant message repeats the
\* requests of the response it was made from (id, tool name, raw arguments)
\* in their order, being absent exactly when the response had none; a
\* tool_call_id is on the tool messages and on no other; and an assistant
\* message without tool_calls is the last message.
C17_MessageShape ==
  /\ \A i \in DOMAIN messages : messages[i].role \in {"user", "assistant", "tool"}
  /\ \A i \in DOMAIN messages : messages[i].role = "user" <=> i = 1
  /\ \A i \in DOMAIN messages :
       /\ "tool_calls" \in DOMAIN messages[i] =>
            IsAssistant(messages[i]) /\ messages[i].tool_calls # <<>>
       /\ "tool_call_id" \in DOMAIN messages[i] <=> IsTool(messages[i])
       /\ (IsAssistant(messages[i]) /\ "tool_calls" \notin DOMAIN messages[i]) =>
            i = Len(messages)
  /\ (service_calls >= 1 /\ resp.choices # <<>>) =>
       LET a == messages[LastAssistant]
       IN /\ LastAssistant > 0
          /\ a.content = resp.choices[1].message.content
          /\ "tool_calls" \in DOMAIN a <=> ResponseRequests # <<>>
          /\ Len(RequestsOf(a)) = Len(ResponseRequests)
          /\ \A k \in DOMAIN ResponseRequests :
               /\ a.tool_calls[k].id = ResponseRequests[k].id
               /\ a.tool_calls[k].function.name = ResponseRequests[k].function.name
               /\ a.tool_calls[k].function.arguments = ResponseRequests[k].function.arguments

\* C17 witness: a transcript of user message, assistant message with two
\* requests, their two tool messages and a final assistant message without
\* tool_calls.
C17_Witness ==
  /\ pc = "RETURNED"
  /\ Len(messages) = 5
  /\ Len(RequestsOf(messages[2])) = 2
  /\ IsTool(messages[3]) /\ IsTool(messages[4])
  /\ IsAssistant(messages[5])
  /\ "tool_calls" \notin DOMAIN messages[5]

\* The step is an abort for an unsupported tool.
UnsupportedAbort ==
  /\ pc' = "RAISED"
  /\ outcome'.kind = "raise"
  /\ outcome'.exc.msg = "Unsupported tool: " \o CurrentCall.function.name

\* C18 (Registry/dispatcher agreement): a request whose arguments decode is
\* aborted as unsupported exactly when its tool name is not in the registry;
\* for a registered name and arguments that are a JSON object, the request is
\* aborted with a missing-argument error whenever a parameter of the schema's
\* required list is absent, a missing-argument error always names a parameter
\* of that list which the arguments lack (absent, null or empty), and a
\* request that is not so aborted is routed to the implementation of its name.
C18_RegistryAgreement ==
  [][(Dispatching /\ DecodedArgs(CurrentCall).ok) =>
       LET name == CurrentCall.function.name
           args == DecodedArgs(CurrentCall).val
       IN /\ UnsupportedAbort <=> name \notin ToolNames
          /\ (name \in ToolNames /\ args.t = "dict") =>
               /\ (\E p \in Required(name) : p \notin DOMAIN args.v) => MissingArgumentAbort
               /\ MissingArgumentAbort =>
                    \E p \in Required(name) :
                      /\ outcome'.exc.msg = MissingArgument(p)
                      /\ TakenForMissing(args, p)
               /\ ~MissingArgumentAbort =>
                    /\ Len(invoked') = Len(invoked) + 1
                    /\ invoked'[Len(invoked')].fn = ImplementationOf(name)]_vars

\* C18 witness: a Bash request with its required command was routed to
\* tool_bash, after a Write request of the same run was routed to tool_write.
C18_Witness ==
  /\ Len(invoked) = 2
  /\ invoked[1].fn = "tool_write"
  /\ invoked[2].fn = "tool_bash"
  /\ Len(tool_calls) >= 1
  /\ tool_calls[Len(tool_calls)].function.name = "Bash"

\* The final text: the content of the final response, nothing when absent.
FinalResponseText ==
  IF resp.choices[1].message.content = PyNone THEN <<>> ELSE resp.choices[1].message.content.v

\* C12 as stated (Output discipline): nothing is on standard output until
\* main() has written the final text, which happens only after the loop
\* returned; what is written then is exactly the content of the final
\* response (nothing for an absent content); a run that ended in an error, at
\* startup or in the loop, has written nothing.
C12_OnlyFinalText ==
  /\ pc # "EXITED" => stdout = <<>>
  /\ pc = "EXITED" =>
       /\ outcome.kind = "return"
       /\ LastResponseFinal
       /\ stdout = FinalResponseText

\* C12 amended: the same, but for a command line asking for help (-h, --help):
\* then the help text is on standard output and the process has exited with
\* status 0 without a service call, the loop never entered.  Every other run
\* has standard output empty until the loop returned and then holding exactly
\* the final text; a run that ended in an error (bad command line, missing
\* key, failure in the loop) has written nothing.
C12_OutputDiscipline ==
  /\ pc # "EXITED" => stdout = <<>>
  /\ pc = "EXITED" =>
       \/ /\ outcome.kind = "return"
          /\ LastResponseFinal
          /\ stdout = FinalResponseText
       \/ /\ outcome = SystemExit(0)
          /\ stdout = HelpText
          /\ service_calls = 0
          /\ messages = <<>>
          /\ invoked = <<>>

\* C12 witness: the final text "ok" has been written after a run that called
\* a tool.
C12_Witness ==
  /\ pc = "EXITED"
  /\ stdout = <<"o", "k">>
  /\ Len(invoked) >= 1

\* The for loop is at a Write request.
AtWriteRequest == Dispatching /\ CurrentCall.function.name = "Write"

\* The step calls tool_write, with this path and this content.
WriteInvoked == Len(invoked') = Len(invoked) + 1 /\ invoked'[Len(invoked')].fn = "tool_write"
WritePath == invoked'[Len(invoked')].args[1].v
WriteContent == invoked'[Len(invoked')].args[2].v

\* The step appends the confirmation of the Write.
ConfirmationAppended ==
  messages' = Append(messages, [role |-> "tool", tool_call_id |-> CurrentCall.id,
                                content |-> PyStr(WroteMessage(WritePath, WriteContent))])

\* p is a directory the path q leads through: a part of q in front of one of
\* its slashes names it.
IsAncestor(p, q) ==
  \E n \in 1..(Len(q) - 1) : q[n + 1] = "/" /\ p = NodeOf(SubSeq(q, 1, n))

\* Whatever the step did to the filesystem, it removed nothing, left every
\* node but the target as it was and created nothing but directories the
\* path leads through, and the target itself.
OnlyTargetTouched ==
  LET target == NodeOf(WritePath)
  IN /\ \A p \in DOMAIN fs : p \in DOMAIN fs' /\ (p # target => fs'[p] = fs[p])
     /\ \A p \in DOMAIN fs' \ DOMAIN fs :
          \/ p = target /\ fs'[p].kind = "file"
          \/ IsAncestor(p, WritePath) /\ fs'[p] = DirNode

\* C19 as stated (Write is all-or-nothing with respect to a run abort): the
\* handling of a Write request that ends in an abort leaves the filesystem
\* exactly as it was, and the filesystem changes only when the request
\* completes and its confirmation is appended.
C19_WriteAllOrNothing ==
  [][AtWriteRequest =>
       /\ pc' = "RAISED" => fs' = fs
       /\ fs' # fs => pc' # "RAISED" /\ WriteInvoked /\ ConfirmationAppended]_vars

\* C19 amended: an abort before tool_write is called (undecodable or missing
\* arguments) leaves the filesystem exactly as it was; an abort inside
\* tool_write removes nothing and leaves every other file as it was, but may
\* leave directories it created on the way to the target and the target
\* created or emptied; and when the request completes, the target holds the
\* content written, nothing else has changed but for created directories, and the
\* confirmation is appended.
C19_WriteAbortEffects ==
  [][AtWriteRequest =>
       IF pc' = "RAISED"
         THEN IF ~WriteInvoked THEN fs' = fs /\ invoked' = invoked
              ELSE /\ OnlyTargetTouched
                   /\ LET target == NodeOf(WritePath)
                      IN IsFile(fs', target) =>
                           \/ target \in DOMAIN fs /\ fs'[target] = fs[target]
                           \/ fs'[target] = FileNode(<<>>)
         ELSE /\ WriteInvoked
              /\ OnlyTargetTouched
              /\ fs'[NodeOf(WritePath)] = FileNode(EncodeText(WriteContent))
              /\ ConfirmationAppended]_vars

\* C19 witness: the run aborted in a Write of content that cannot be encoded,
\* and the file "a" that held text at start is left empty.
C19_Witness ==
  /\ pc = "RAISED"
  /\ idx = 1
  /\ service_calls = 1
  /\ tool_calls[idx].function = [name |-> "Write", arguments |-> RAW_A_SURROGATE]
  /\ outcome.exc.type = "UnicodeEncodeError"
  /\ fs = Put(EmptyFS, <<"a">>, FileNode(<<>>))

====
